---- MODULE Spec2Model ----
(***************************************************************************)
(* State-machine model of the panorama editor of lens-FE                   *)
(* (src/app/components/PanoramaEditor.tsx): the layer collection, the      *)
(* view, the pointer interaction state, the image loads in flight and the  *)
(* WebGL calls of the last frame.  Spec is the pointer's state machine;    *)
(* ListSpec, UpdateSpec, FitSpec and WheelSpec run the layer list, the     *)
(* layer updates, the fit and the wheel over the same state; FrameSpec     *)
(* schedules the frames, DeleteSpec calls deleteLayer with any id.         *)
(* ScaleSpec, PlacementSpec, SelectionSpec, EffectsSpec and ResizeSpec run *)
(* the zoom under resizes, the placement matrices, the selection, the      *)
(* view and layer operations, and the frames under resizes.                *)
(* The single-image corrector LensCorrector (src/app/how-it-works/         *)
(* page.tsx) is CorrectorSpec; TeardownSpec, LoadSpec and StartSpec run    *)
(* both components through unmounting, failed loads and failed             *)
(* initialisation, and ShaderSpec runs the two fragment shaders.           *)
(*                                                                         *)
(* JavaScript numbers are modelled as exact rationals [n, d] in lowest     *)
(* terms (d > 0); floating-point rounding is not modelled.  Angles are     *)
(* modelled by the integer codes of AngleCodes, for which cosine and sine  *)
(* are rational, so that rotations are computed exactly.                   *)
(***************************************************************************)
EXTENDS Integers, Sequences, FiniteSets, TLC

\* ------------------------------------------------------------ bounds
\* Files the user ever selects in the file input.
MaxFiles == 2
\* Presses of the zoom buttons away from 100% in either direction.
MaxZoomSteps == 1
\* Pointer-down events the canvas ever receives.
MaxDowns == 2
\* Files the user ever selects, where the layer list is reordered.
MaxListFiles == 3
\* Wheel events the canvas ever receives.
MaxWheels == 2
\* Commits of a changed layer collection or view, where frames are scheduled.
MaxCommits == 4
\* Files the user ever selects in the single-image corrector.
MaxRequests == 2
\* Textures the single-image corrector creates by moving its controls.
MaxTextures == 4

\* ------------------------------------------------------------ constants
\* const padding = 50, of fitToScreen.
padding == 50

\* ------------------------------------------------------------ numbers
\* null, for activeLayerId and for a layer's texture.
NULL == 0

Abs(i) == IF i < 0 THEN -i ELSE i

RECURSIVE GCD(_, _)
GCD(a, b) == IF b = 0 THEN a ELSE GCD(b, a % b)

\* The rational n/d (d > 0) in lowest terms.
Norm(n, d) ==
    LET g == GCD(Abs(n), d)
    IN  [n |-> n \div g, d |-> d \div g]

\* The number i.
R(i) == [n |-> i, d |-> 1]
\* The number n/d, for d # 0.
Frac(n, d) == IF d > 0 THEN Norm(n, d) ELSE Norm(-n, -d)

RAdd(a, b) == Norm(a.n * b.d + b.n * a.d, a.d * b.d)
RSub(a, b) == Norm(a.n * b.d - b.n * a.d, a.d * b.d)
RMul(a, b) == Norm(a.n * b.n, a.d * b.d)
\* a / b for b # 0.
RDiv(a, b) == Frac(a.n * b.d, a.d * b.n)
RNeg(a) == [n |-> -a.n, d |-> a.d]
RAbs(a) == [n |-> Abs(a.n), d |-> a.d]
RLe(a, b) == a.n * b.d <= b.n * a.d

\* Angles are codes: 0 is 0 rad, 1 is atan(4/3) (about 0.927 rad), 2 is pi/2,
\* and -k is the negated angle.
\* Math.cos and Math.sin on an angle code.
MathCos(r) ==
    CASE Abs(r) = 0 -> R(1)
      [] Abs(r) = 1 -> Frac(3, 5)
      [] Abs(r) = 2 -> R(0)

MathSin(r) ==
    LET s == CASE Abs(r) = 0 -> R(0)
               [] Abs(r) = 1 -> Frac(4, 5)
               [] Abs(r) = 2 -> R(1)
    IN  IF r < 0 THEN RNeg(s) ELSE s

\* ------------------------------------------------------------ matrices
\* 3x3 matrices as the 9-element arrays the code hands to uniformMatrix3fv.
m3_projection(width, height) ==
    << RDiv(R(2), width), R(0),                  R(0),
       R(0),              RDiv(R(-2), height),   R(0),
       R(-1),             R(1),                  R(1) >>

m3_translation(tx, ty) ==
    << R(1), R(0), R(0),
       R(0), R(1), R(0),
       tx,   ty,   R(1) >>

m3_rotation(angleInRadians) ==
    LET c == MathCos(angleInRadians)
        s == MathSin(angleInRadians)
    IN  << c,    RNeg(s), R(0),
           s,    c,       R(0),
           R(0), R(0),    R(1) >>

m3_scale(sx, sy) ==
    << sx,   R(0), R(0),
       R(0), sy,   R(0),
       R(0), R(0), R(1) >>

\* Element (i, j) of the array a, as the code indexes it: a[i * 3 + j].
At(a, i, j) == a[i * 3 + j + 1]

\* Mutant of m3_multiply: the operands exchanged.
m3_multiplyExchanged(a, b) ==
    LET e(i, j) == RAdd(RAdd(RMul(At(a, i, 0), At(b, 0, j)),
                             RMul(At(a, i, 1), At(b, 1, j))),
                        RMul(At(a, i, 2), At(b, 2, j)))
    IN  << e(0, 0), e(0, 1), e(0, 2),
           e(1, 0), e(1, 1), e(1, 2),
           e(2, 0), e(2, 1), e(2, 2) >>

m3_multiply(a, b) ==
    LET e(i, j) == RAdd(RAdd(RMul(At(b, i, 0), At(a, 0, j)),
                             RMul(At(b, i, 1), At(a, 1, j))),
                        RMul(At(b, i, 2), At(a, 2, j)))
    IN  << e(0, 0), e(0, 1), e(0, 2),
           e(1, 0), e(1, 1), e(1, 2),
           e(2, 0), e(2, 1), e(2, 2) >>

\* The vertex shader: u_matrix * vec3(a_position, 1), u_matrix uploaded
\* column-major (transpose = false); the xy of the result.
VertexShader(u_matrix, a_position) ==
    [x |-> RAdd(RAdd(RMul(u_matrix[1], a_position.x), RMul(u_matrix[4], a_position.y)), u_matrix[7]),
     y |-> RAdd(RAdd(RMul(u_matrix[2], a_position.x), RMul(u_matrix[5], a_position.y)), u_matrix[8])]


\* ------------------------------------------------------------ inputs
\* The canvas element's bounding rectangle: its offset in client coordinates
\* (the canvas sits to the right of the 320px sidebar, under the header).
Rect == [left |-> 320, top |-> 64]

\* Pointer positions, in canvas pixels: the centre of the canvas, where
\* layers are created, and a point away from it.
CanvasPoints ==
    { [x |-> 400, y |-> 300], [x |-> 600, y |-> 350] }

\* The clientX/clientY of the pointer events.
ClientPoints == { [x |-> p.x + Rect.left, y |-> p.y + Rect.top] : p \in CanvasPoints }

\* MouseEvent.button: 0 main, 1 middle.
Buttons == {0, 1}

\* Intrinsic sizes of the images the user can select.
ImageSizes == { [width |-> 200, height |-> 100] }

\* The values of the rotation slider that are modelled (angle codes).
SliderRotations == {0, 1}

\* The updates updateLayer is called with: a scale and an opacity outside
\* the sliders' ranges (0.1 to 3, 0 to 1), a scale inside its range, and a
\* position.
LayerUpdates ==
    { [scale |-> R(-1)], [opacity |-> Frac(3, 2), distortion |-> R(1)],
      [scale |-> R(2)], [x |-> R(0), y |-> R(0)] }

\* The wheel events: pinches (ctrlKey) in and out at the pointer positions,
\* one of them small and two large enough to reach the ends of the zoom
\* range from 100%, and two-finger scrolls by (10, 10) and back.
WheelEvents ==
    { [ctrlKey |-> TRUE, clientX |-> p.x, clientY |-> p.y, deltaX |-> 0, deltaY |-> d] :
        p \in ClientPoints, d \in {-300, -69, 300} }
    \cup
    { [ctrlKey |-> FALSE, clientX |-> p.x, clientY |-> p.y, deltaX |-> d, deltaY |-> d] :
        p \in {[x |-> 720, y |-> 364]}, d \in {-10, 10} }

\* The values of the scale slider that are modelled: 100%, and its least
\* value (min="0.1").
SliderScales == { R(1) }
LeastSliderScale == Frac(1, 10)

\* The sizes the canvas's container is resized to: a wide one, and one as
\* wide as the two fit paddings.
CanvasSizes == { [w |-> R(1000), h |-> R(500)], [w |-> R(100), h |-> R(500)] }

\* The size of the canvas's container as the page is first laid out.
InitialCanvasSize == [w |-> R(800), h |-> R(600)]

\* ------------------------------------------------------------ state
VARIABLES
    layers,          \* useState<ImageLayer[]>: the layer collection, in insertion order
    activeLayerId,   \* useState<string | null>: the active selection
    isDragging,      \* useState(false)
    isPanning,       \* useState(false)
    isSpacePressed,  \* useState(false)
    dragStart,       \* useState({x, y}): client position of the last pointer-down
    initialPos,      \* useState({x, y}): the hit layer's position at pointer-down
    initialView,     \* useState({x, y}): the view pan at pointer-down
    canvasSize,      \* useState({w, h})
    view,            \* useState({x, y, scale})
    glRef,           \* whether glRef.current holds a WebGL context
    textures,        \* the texture objects created in the context and not deleted
    frame,           \* the WebGL calls of the last frame render drew, in order
    pending,         \* image loads in flight: the img.onload closures not yet run
    nextId,          \* the number of layer ids generated so far
    files,           \* the number of files selected so far
    downs,           \* the number of pointer-down events handled so far
    draggedLayerId,  \* history: the layer hit by the last pointer-down that started a drag
    steps,           \* the number of wheel events handled so far
    lastOp,          \* history: the last wheel event (with the view it found), fit or reset
    renderRef,       \* the render closure of the last commit: the layers and view it closed over
    rafQueue,        \* the render closures passed to requestAnimationFrame and not yet run
    drawnFrom,       \* history: the commit whose render closure drew the last frame
    programRef,      \* whether programRef.current holds the linked program
    mounted,         \* whether the editor is mounted
    failures,        \* history: the number of image loads that have failed so far
    image,           \* LensCorrector useState: the request whose decoded image is active, or NULL
    strength,        \* LensCorrector useState(0)
    zoom,            \* LensCorrector useState(1)
    fileName,        \* LensCorrector useState: the request the download is named after, or NULL
    lcGlRef,         \* LensCorrector: whether glRef.current holds a WebGL context
    lcProgramRef,    \* LensCorrector: whether programRef.current holds the linked program
    textureRef,      \* LensCorrector: the request whose image textureRef.current holds, or NULL
    lcTextures,      \* LensCorrector: the number of textures gl.createTexture has returned
    lcFrame,         \* LensCorrector: the WebGL draw calls of the last render that drew
    initRuns,        \* LensCorrector: the number of runs of initWebGL so far
    lcMounted,       \* whether LensCorrector is mounted
    decodes,         \* LensCorrector: the file reads and image decodes in flight
    requests,        \* LensCorrector: the number of files selected so far
    completed,       \* history: the requests whose img.onload has run, in that order
    fragment,        \* a fragment of a draw: its v_texCoord and the draw's uniforms
    lcFragColor,     \* what LensCorrector's fragment shader has made of the fragment
    fragColor        \* what the editor's fragment shader has made of the fragment

vars == << layers, activeLayerId, isDragging, isPanning, isSpacePressed,
           dragStart, initialPos, initialView, canvasSize, view, glRef,
           textures, frame, pending, nextId, files, downs, draggedLayerId,
           steps, lastOp, renderRef, rafQueue, drawnFrom, programRef, mounted,
           failures, image, strength, zoom, fileName, lcGlRef, lcProgramRef,
           textureRef, lcTextures, lcFrame, initRuns, lcMounted, decodes, requests,
           completed, fragment, lcFragColor, fragColor >>

interaction == << isDragging, isPanning, dragStart, initialPos, initialView >>
gpu == << glRef, textures, frame >>
loads == << pending, nextId, files >>
history == << downs, draggedLayerId, steps, lastOp >>
scheduler == << renderRef, rafQueue, drawnFrom >>
lifecycle == << programRef, mounted, failures >>
corrector == << image, strength, zoom, fileName, lcGlRef, lcProgramRef, textureRef,
               lcTextures, lcFrame, initRuns, lcMounted, decodes, requests, completed >>
shader == << fragment, lcFragColor, fragColor >>
outside == << scheduler, lifecycle, corrector, shader >>

\* The state of the components as they are mounted.
Mounted ==
    /\ layers = << >>
    /\ activeLayerId = NULL
    /\ isDragging = FALSE
    /\ isPanning = FALSE
    /\ isSpacePressed = FALSE
    /\ dragStart = [x |-> R(0), y |-> R(0)]
    /\ initialPos = [x |-> R(0), y |-> R(0)]
    /\ initialView = [x |-> R(0), y |-> R(0)]
    /\ canvasSize = InitialCanvasSize
    /\ view = [x |-> R(0), y |-> R(0), scale |-> R(1)]
    /\ glRef \in BOOLEAN
    /\ textures = {}
    /\ frame = << >>
    /\ pending = << >>
    /\ nextId = 0
    /\ files = 0
    /\ downs = 0
    /\ draggedLayerId = NULL
    /\ steps = 0
    /\ lastOp = [op |-> "none"]
    /\ renderRef = [layers |-> << >>, view |-> [x |-> R(0), y |-> R(0), scale |-> R(1)], n |-> 1]
    /\ rafQueue = << renderRef >>
    /\ drawnFrom = 0
    /\ mounted = TRUE
    /\ failures = 0
    /\ image = NULL
    /\ strength = R(0)
    /\ zoom = R(1)
    /\ fileName = NULL
    /\ lcGlRef = FALSE
    /\ lcProgramRef = FALSE
    /\ textureRef = NULL
    /\ lcTextures = 0
    /\ lcFrame = << >>
    /\ initRuns = 0
    /\ lcMounted = TRUE
    /\ decodes = {}
    /\ requests = 0
    /\ completed = << >>

\* No fragment is being shaded.
NoFragment ==
    /\ fragment = [texCoord |-> [x |-> Frac(1, 2), y |-> Frac(1, 2)],
                   k |-> R(0), zoom |-> R(1), opacity |-> R(1)]
    /\ lcFragColor = [kind |-> "none"]
    /\ fragColor = [kind |-> "none"]

\* The page as it is first laid out, the editor's program linked whenever
\* its context was created.
Init ==
    /\ Mounted
    /\ programRef = glRef
    /\ NoFragment

\* ------------------------------------------------------------ helpers
\* The elements of a sequence.
Range(s) == { s[i] : i \in DOMAIN s }

\* s without its i-th element.
RemoveAt(s, i) == [ j \in 1 .. (Len(s) - 1) |-> IF j < i THEN s[j] ELSE s[j + 1] ]

\* Array.prototype.filter with the predicate l.id !== id.
RECURSIVE FilterOutId(_, _)
FilterOutId(s, id) ==
    IF s = << >> THEN << >>
    ELSE IF Head(s).id # id
         THEN << Head(s) >> \o FilterOutId(Tail(s), id)
         ELSE FilterOutId(Tail(s), id)

\* Insertion of l into the sequence s, sorted by zIndex descending, behind
\* every element that does not compare after it (a stable sort's placement).
RECURSIVE InsertDesc(_, _)
InsertDesc(s, l) ==
    IF s = << >> THEN << l >>
    ELSE IF Head(s).zIndex >= l.zIndex
         THEN << Head(s) >> \o InsertDesc(Tail(s), l)
         ELSE << l >> \o s

\* [...layers].sort((a, b) => b.zIndex - a.zIndex): stable, zIndex descending.
RECURSIVE SortDesc(_)
SortDesc(s) ==
    IF s = << >> THEN << >>
    ELSE InsertDesc(SortDesc(SubSeq(s, 1, Len(s) - 1)), s[Len(s)])


\* ------------------------------------------------------------ model bounds
RECURSIVE Pow(_, _)
Pow(b, e) == IF e = 0 THEN 1 ELSE b * Pow(b, e - 1)

\* The view zoom stays between 100% and MaxZoomSteps presses of + above it.
ZoomInBounds(scale) ==
    /\ RLe(scale, Frac(Pow(11, MaxZoomSteps), Pow(10, MaxZoomSteps)))
    /\ RLe(R(1), scale)

\* ------------------------------------------------------------ keyboard
\* handleKeyDown for the Space key: repeat is e.repeat, onInput is whether
\* the event's target is an INPUT element.
handleKeyDown(repeat, onInput) ==
    /\ isSpacePressed' = IF ~repeat /\ ~onInput THEN TRUE ELSE isSpacePressed
    /\ UNCHANGED << layers, activeLayerId, interaction, canvasSize, view, gpu, loads, history, outside >>

\* handleKeyUp for the Space key.
handleKeyUp ==
    /\ isSpacePressed' = FALSE
    /\ UNCHANGED << layers, activeLayerId, interaction, canvasSize, view, gpu, loads, history, outside >>

\* ------------------------------------------------------------ image loading
\* createTexture: null without a context, else a new texture object.
createTexture ==
    IF glRef THEN Cardinality(textures) + 1 ELSE NULL

\* handleFileUpload: every selected file starts a load whose img.onload
\* closure holds the layers and canvasSize of the render the handler
\* belongs to.  fs is the sequence of the selected images' sizes.
handleFileUpload(fs) ==
    /\ files' = files + Len(fs)
    /\ pending' = pending \o
                  [ i \in 1 .. Len(fs) |->
                      [ image |-> fs[i], layersLength |-> Len(layers), canvasSize |-> canvasSize ] ]
    /\ UNCHANGED << layers, activeLayerId, interaction, isSpacePressed, canvasSize,
                    view, gpu, nextId, history, outside >>

\* The layer record built by img.onload for the load c, with id and texture tex.
NewLayer(c, id, tex) ==
    [ id |-> id,
      texture |-> tex,
      x |-> RDiv(c.canvasSize.w, R(2)),
      y |-> RDiv(c.canvasSize.h, R(2)),
      width |-> R(c.image.width),
      height |-> R(c.image.height),
      scale |-> Frac(1, 2),
      rotation |-> 0,
      distortion |-> R(0),
      opacity |-> Frac(4, 5),
      zIndex |-> c.layersLength + 1 ]

\* img.onload of the i-th load in flight: loads complete in any order.
imgOnload(i) ==
    /\ i \in DOMAIN pending
    /\ LET tex == createTexture
           newLayer == NewLayer(pending[i], nextId + 1, tex)
       IN  /\ textures' = IF tex = NULL THEN textures ELSE textures \cup {tex}
           /\ layers' = Append(layers, newLayer)
           /\ activeLayerId' = newLayer.id
    /\ nextId' = nextId + 1
    /\ pending' = RemoveAt(pending, i)
    /\ UNCHANGED << interaction, isSpacePressed, canvasSize, view, glRef, frame, files,
                    history, outside >>

\* ------------------------------------------------------------ layer edits
\* {...l, ...updates}: the fields of updates over those of l.
Merge(l, updates) ==
    [ f \in DOMAIN l |-> IF f \in DOMAIN updates THEN updates[f] ELSE l[f] ]

\* Mutant of updateLayer: the updates are merged into every layer.
updateLayerEveryLayer(id, updates) ==
    [ i \in DOMAIN layers |-> Merge(layers[i], updates) ]

\* updateLayer(id, updates): the new value of layers.
updateLayer(id, updates) ==
    [ i \in DOMAIN layers |-> IF layers[i].id = id THEN Merge(layers[i], updates) ELSE layers[i] ]

\* A slider of the active layer's controls (shown for the active layer only).
sliderChange(updates) ==
    /\ \E i \in DOMAIN layers : layers[i].id = activeLayerId
    /\ layers' = updateLayer(activeLayerId, updates)
    /\ UNCHANGED << activeLayerId, interaction, isSpacePressed, canvasSize, view, gpu, loads, history, outside >>

\* Mutant of deleteLayer: the selection is never cleared.
deleteLayerKeepsSelection(id) ==
    /\ layers' = FilterOutId(layers, id)
    /\ UNCHANGED << activeLayerId, interaction, isSpacePressed, canvasSize, view, gpu,
                    loads, history, outside >>

\* deleteLayer(id), from the delete button of a layer list entry.
deleteLayer(id) ==
    /\ layers' = FilterOutId(layers, id)
    /\ activeLayerId' = IF activeLayerId = id THEN NULL ELSE activeLayerId
    /\ UNCHANGED << interaction, isSpacePressed, canvasSize, view, gpu, loads, history, outside >>

\* onClick of a layer list entry.
layerClick(id) ==
    /\ activeLayerId' = id
    /\ UNCHANGED << layers, interaction, isSpacePressed, canvasSize, view, gpu, loads, history, outside >>

\* ------------------------------------------------------------ layer list
\* s with x put in at position i (1-based): splice(i - 1, 0, x).
InsertAt(s, i, x) == SubSeq(s, 1, i - 1) \o << x >> \o SubSeq(s, i, Len(s))

\* findIndex(l => l.id === id), 1-based: the first position of id, 0 for -1.
FindIndex(s, id) ==
    LET I == { i \in DOMAIN s : s[i].id = id }
    IN  IF I = {} THEN 0 ELSE CHOOSE i \in I : \A j \in I : i <= j

\* The two splices of onDrop: the item at fromIndex taken out, then put in
\* at toIndex.
MoveItem(sorted, fromIndex, toIndex) ==
    InsertAt(RemoveAt(sorted, fromIndex), toIndex, sorted[fromIndex])

\* Mutant of ReassignZIndex: the list's bottom gets the highest zIndex.
ReassignZIndexBottomUp(sorted) ==
    [ i \in DOMAIN sorted |-> [sorted[i] EXCEPT !.zIndex = i] ]

\* sorted.forEach((l, i) => l.zIndex = sorted.length - i), i from 0.
ReassignZIndex(sorted) ==
    [ i \in DOMAIN sorted |-> [sorted[i] EXCEPT !.zIndex = Len(sorted) - (i - 1)] ]

\* onDrop of the list entry at position index (1-based) of the layer list,
\* which shows the layers sorted by zIndex descending; draggedId is the
\* text/plain data of the drag.
onDrop(draggedId, index) ==
    /\ index \in DOMAIN layers
    /\ LET sorted == SortDesc(layers)
           fromIndex == FindIndex(sorted, draggedId)
       IN  IF draggedId = sorted[index].id \/ fromIndex = 0
           THEN layers' = layers
           ELSE layers' = ReassignZIndex(MoveItem(sorted, fromIndex, index))
    /\ UNCHANGED << activeLayerId, interaction, isSpacePressed, canvasSize, view, gpu,
                    loads, history, outside >>

\* A call of updateLayer with any id and any updates.
updateLayerCall(id, updates) ==
    /\ layers' = updateLayer(id, updates)
    /\ UNCHANGED << activeLayerId, interaction, isSpacePressed, canvasSize, view, gpu,
                    loads, history, outside >>

\* ------------------------------------------------------------ view
\* The + and - buttons: scale * 1.1 and scale / 1.1.
zoomInButton ==
    /\ ZoomInBounds(RMul(view.scale, Frac(11, 10)))
    /\ view' = [view EXCEPT !.scale = RMul(view.scale, Frac(11, 10))]
    /\ UNCHANGED << layers, activeLayerId, interaction, isSpacePressed, canvasSize, gpu, loads, history, outside >>

zoomOutButton ==
    /\ ZoomInBounds(RDiv(view.scale, Frac(11, 10)))
    /\ view' = [view EXCEPT !.scale = RDiv(view.scale, Frac(11, 10))]
    /\ UNCHANGED << layers, activeLayerId, interaction, isSpacePressed, canvasSize, gpu, loads, history, outside >>


\* Mutant of resetView: the selection is cleared with the view.
resetViewDeselects ==
    /\ view' = [x |-> R(0), y |-> R(0), scale |-> R(1)]
    /\ activeLayerId' = NULL
    /\ lastOp' = [op |-> "reset"]
    /\ UNCHANGED << layers, interaction, isSpacePressed, canvasSize, gpu,
                    loads, downs, draggedLayerId, steps, outside >>

\* The Reset View button.
resetView ==
    /\ view' = [x |-> R(0), y |-> R(0), scale |-> R(1)]
    /\ lastOp' = [op |-> "reset"]
    /\ UNCHANGED << layers, activeLayerId, interaction, isSpacePressed, canvasSize, gpu,
                    loads, downs, draggedLayerId, steps, outside >>

\* The ResizeObserver callback: the container's content box is size. The
\* assignments to the canvas's width and height leave its drawing buffer
\* blank.
resize(size) ==
    /\ canvasSize' = size
    /\ frame' = << >>
    /\ UNCHANGED << layers, activeLayerId, interaction, isSpacePressed, view, glRef,
                    textures, loads, history, outside >>

\* ------------------------------------------------------------ wheel
\* Math.exp(h * 0.01) for the wheel deltas modelled, as the nearest of the
\* rationals 1/20, 1/2, 1, 2, 20 (e^3 = 20.09, e^0.69 = 1.99).
MathExp(h) ==
    CASE h = 0 -> R(1)
      [] h = 69 -> R(2)
      [] h = -69 -> Frac(1, 2)
      [] h = 300 -> R(20)
      [] h = -300 -> Frac(1, 20)

\* Math.max(a, b) and Math.min(a, b) on finite numbers.
RMax(a, b) == IF RLe(a, b) THEN b ELSE a
RMin(a, b) == IF RLe(a, b) THEN a ELSE b

\* Mutant of ZoomAt: the pan is kept, so the zoom is about the origin.
ZoomAtKeepsPan(prevView, mouse, deltaY) ==
    [x |-> prevView.x, y |-> prevView.y,
     scale |-> RMax(Frac(1, 10), RMin(RMul(prevView.scale, MathExp(-deltaY)), R(10)))]

\* The updater of the zoom branch of handleWheel: the view after a wheel
\* event with ctrlKey and deltaY at the canvas point mouse.
ZoomAt(prevView, mouse, deltaY) ==
    LET scaleFactor == MathExp(-deltaY)
        newScale == RMax(Frac(1, 10), RMin(RMul(prevView.scale, scaleFactor), R(10)))
        worldX == RDiv(RSub(mouse.x, prevView.x), prevView.scale)
        worldY == RDiv(RSub(mouse.y, prevView.y), prevView.scale)
    IN  [x |-> RSub(mouse.x, RMul(worldX, newScale)),
         y |-> RSub(mouse.y, RMul(worldY, newScale)),
         scale |-> newScale]

\* Mutant of PanBy: the pan stops at the origin.
PanByStopsAtOrigin(prevView, deltaX, deltaY) ==
    [prevView EXCEPT !.x = RMax(R(0), RSub(prevView.x, R(deltaX))),
                     !.y = RMax(R(0), RSub(prevView.y, R(deltaY)))]

\* The updater of the pan branch of handleWheel.
PanBy(prevView, deltaX, deltaY) ==
    [prevView EXCEPT !.x = RSub(prevView.x, R(deltaX)),
                     !.y = RSub(prevView.y, R(deltaY))]

\* mouseX and mouseY of handleWheel: the pointer in canvas space.
WheelPoint(e) ==
    [x |-> RSub(R(e.clientX), R(Rect.left)), y |-> RSub(R(e.clientY), R(Rect.top))]

\* handleWheel for the wheel event e: a pinch (ctrlKey) zooms at the
\* pointer, any other wheel event pans.
handleWheel(e) ==
    /\ steps < MaxWheels
    /\ steps' = steps + 1
    /\ view' = IF e.ctrlKey
               THEN ZoomAt(view, WheelPoint(e), e.deltaY)
               ELSE PanBy(view, e.deltaX, e.deltaY)
    /\ lastOp' = [op |-> "wheel", e |-> e, view |-> view]
    /\ UNCHANGED << layers, activeLayerId, interaction, isSpacePressed, canvasSize, gpu,
                    loads, downs, draggedLayerId, outside >>

\* ------------------------------------------------------------ fit
\* The corners of the unit quad centred at the origin.
corners ==
    { [x |-> Frac(-1, 2), y |-> Frac(-1, 2)], [x |-> Frac(1, 2), y |-> Frac(-1, 2)],
      [x |-> Frac(1, 2), y |-> Frac(1, 2)], [x |-> Frac(-1, 2), y |-> Frac(1, 2)] }

\* fitToScreen's world position of a layer's corner: scale, rotate by
\* x' = x cos - y sin, y' = x sin + y cos, translate.
CornerInWorld(layer, corner) ==
    LET x == RMul(RMul(corner.x, layer.width), layer.scale)
        y == RMul(RMul(corner.y, layer.height), layer.scale)
        cos == MathCos(layer.rotation)
        sin == MathSin(layer.rotation)
        rx == RSub(RMul(x, cos), RMul(y, sin))
        ry == RAdd(RMul(x, sin), RMul(y, cos))
    IN  [x |-> RAdd(rx, layer.x), y |-> RAdd(ry, layer.y)]

\* The least and the greatest of a non-empty set of numbers.
MinOf(S) == CHOOSE a \in S : \A b \in S : RLe(a, b)
MaxOf(S) == CHOOSE a \in S : \A b \in S : RLe(b, a)

\* minX, maxX, minY, maxY after fitToScreen's loops over the layers ls.
Extrema(ls) ==
    LET P == { CornerInWorld(l, c) : l \in Range(ls), c \in corners }
    IN  [minX |-> MinOf({ p.x : p \in P }), maxX |-> MaxOf({ p.x : p \in P }),
         minY |-> MinOf({ p.y : p \in P }), maxY |-> MaxOf({ p.y : p \in P })]

\* a / b in JavaScript, for b >= 0: a quotient by zero is Infinity,
\* -Infinity or NaN, written n/0 with n = 1, -1, 0.
JsDiv(a, b) ==
    IF b.n # 0 THEN RDiv(a, b)
    ELSE [n |-> IF a.n > 0 THEN 1 ELSE IF a.n < 0 THEN -1 ELSE 0, d |-> 0]

isFinite(a) == a.d # 0

\* Math.min(a, b): NaN if either is NaN, else the lesser.
MathMin(a, b) ==
    IF (a.d = 0 /\ a.n = 0) \/ (b.d = 0 /\ b.n = 0) THEN [n |-> 0, d |-> 0]
    ELSE IF a.d = 0 THEN (IF a.n < 0 THEN a ELSE b)
    ELSE IF b.d = 0 THEN (IF b.n < 0 THEN b ELSE a)
    ELSE RMin(a, b)

\* Math.max(a, b), as for MathMin.
MathMax(a, b) ==
    IF (a.d = 0 /\ a.n = 0) \/ (b.d = 0 /\ b.n = 0) THEN [n |-> 0, d |-> 0]
    ELSE IF a.d = 0 THEN (IF a.n > 0 THEN a ELSE b)
    ELSE IF b.d = 0 THEN (IF b.n > 0 THEN b ELSE a)
    ELSE RMax(a, b)

\* Mutant of FitScale: the greater of the two scales is taken.
FitScaleTakesMax(m, size) ==
    LET scaleW == JsDiv(RSub(size.w, R(padding * 2)), RSub(m.maxX, m.minX))
        scaleH == JsDiv(RSub(size.h, R(padding * 2)), RSub(m.maxY, m.minY))
        newScale == MathMax(scaleW, scaleH)
    IN  IF ~isFinite(newScale) \/ newScale = R(0) THEN R(1) ELSE newScale

\* newScale of fitToScreen for the extrema m in a canvas of the given size.
FitScale(m, size) ==
    LET boundsW == RSub(m.maxX, m.minX)
        boundsH == RSub(m.maxY, m.minY)
        availW == RSub(size.w, R(padding * 2))
        availH == RSub(size.h, R(padding * 2))
        scaleW == JsDiv(availW, boundsW)
        scaleH == JsDiv(availH, boundsH)
        newScale == MathMin(scaleW, scaleH)
    IN  IF ~isFinite(newScale) \/ newScale = R(0) THEN R(1) ELSE newScale

\* The view fitToScreen sets for a non-empty collection.
FitView ==
    LET m == Extrema(layers)
        centerX == RDiv(RAdd(m.minX, m.maxX), R(2))
        centerY == RDiv(RAdd(m.minY, m.maxY), R(2))
        newScale == FitScale(m, canvasSize)
    IN  [x |-> RSub(RDiv(canvasSize.w, R(2)), RMul(centerX, newScale)),
         y |-> RSub(RDiv(canvasSize.h, R(2)), RMul(centerY, newScale)),
         scale |-> newScale]

\* Mutant of EmptyFitView: the pan is reset, the zoom is kept.
EmptyFitViewKeepsZoom == [x |-> R(0), y |-> R(0), scale |-> view.scale]

\* The view fitToScreen sets for an empty collection.
EmptyFitView == [x |-> R(0), y |-> R(0), scale |-> R(1)]

\* fitToScreen, the Fit to All button.
fitToScreen ==
    /\ view' = IF Len(layers) = 0 THEN EmptyFitView ELSE FitView
    /\ lastOp' = [op |-> "fit"]
    /\ UNCHANGED << layers, activeLayerId, interaction, isSpacePressed, canvasSize, gpu,
                    loads, downs, draggedLayerId, steps, outside >>

\* ------------------------------------------------------------ render
\* The model matrix render computes for a layer:
\* translation * rotation * scale.
ModelMatrix(layer) ==
    LET m1 == m3_translation(layer.x, layer.y)
        m2 == m3_multiply(m1, m3_rotation(layer.rotation))
    IN  m3_multiply(m2, m3_scale(RMul(layer.width, layer.scale),
                                 RMul(layer.height, layer.scale)))

\* The view matrix render computes: translation * scale.
ViewMatrix ==
    m3_multiply(m3_translation(view.x, view.y), m3_scale(view.scale, view.scale))

\* The matrix render uploads as u_matrix for a layer: (projection * view) *
\* model, the projection taken from the drawing buffer's size.
finalMatrix(layer) ==
    LET projection == m3_projection(canvasSize.w, canvasSize.h)
        viewProjection == m3_multiply(projection, ViewMatrix)
    IN  m3_multiply(viewProjection, ModelMatrix(layer))

\* Where render puts the unit-quad point p of a layer on the canvas, in
\* canvas pixels: the vertex shader on view * model.
ScreenPoint(layer, p) ==
    VertexShader(m3_multiply(ViewMatrix, ModelMatrix(layer)), p)

\* Insertion of l into the sequence s, sorted by zIndex ascending, behind
\* every element that does not compare after it.
RECURSIVE InsertAsc(_, _)
InsertAsc(s, l) ==
    IF s = << >> THEN << l >>
    ELSE IF Head(s).zIndex <= l.zIndex
         THEN << Head(s) >> \o InsertAsc(Tail(s), l)
         ELSE << l >> \o s

\* Mutant of SortAsc: the layers in the order of the collection.
Unsorted(s) == s

\* [...layers].sort((a, b) => a.zIndex - b.zIndex): stable, zIndex ascending.
RECURSIVE SortAsc(_)
SortAsc(s) ==
    IF s = << >> THEN << >>
    ELSE InsertAsc(SortAsc(SubSeq(s, 1, Len(s) - 1)), s[Len(s)])

\* The WebGL calls of sorted.forEach for one layer: none without a texture,
\* else the texture bound and one drawArrays with the layer's uniforms.
DrawCalls(layer) ==
    IF layer.texture = NULL THEN << >>
    ELSE << [call |-> "bindTexture", args |-> << layer.texture >>],
            [call |-> "drawArrays", args |-> << layer.distortion, layer.opacity >>] >>

RECURSIVE ForEachDraw(_)
ForEachDraw(sorted) ==
    IF sorted = << >> THEN << >>
    ELSE DrawCalls(Head(sorted)) \o ForEachDraw(Tail(sorted))

\* render, run by requestAnimationFrame: nothing without a context, else
\* the colour buffer cleared to (0,0,0,0) and the layers drawn.
render ==
    /\ frame' = IF ~glRef \/ ~programRef THEN frame
                ELSE << [call |-> "clearColor", args |-> << 0, 0, 0, 0 >>],
                        [call |-> "clear", args |-> << >>] >>
                     \o ForEachDraw(SortAsc(layers))
    /\ UNCHANGED << layers, activeLayerId, interaction, isSpacePressed, canvasSize, view,
                    glRef, textures, loads, history, outside >>

\* ------------------------------------------------------------ pointer
\* Mutant of isPanTrigger: the Space key is forgotten.
isPanTriggerMiddleOnly(button) == button = 1

\* The pan triggers of handleMouseDown: Space held, or the middle button.
isPanTrigger(button) == isSpacePressed \/ button = 1

\* The pointer in canvas space: the client position less the canvas's offset.
CanvasPoint(e) ==
    [x |-> RSub(R(e.x), R(Rect.left)), y |-> RSub(R(e.y), R(Rect.top))]

\* The canvas point m in world space: the inverse of the view transform.
WorldPoint(m) ==
    [x |-> RDiv(RSub(m.x, view.x), view.scale),
     y |-> RDiv(RSub(m.y, view.y), view.scale)]

\* The world point (wx, wy) in the layer's unit-quad space, as the hit test
\* of handleMouseDown computes it.
LocalPoint(layer, wx, wy) ==
    LET lx1 == RSub(wx, layer.x)
        ly1 == RSub(wy, layer.y)
        cos == MathCos(-layer.rotation)
        sin == MathSin(-layer.rotation)
        lx2 == RSub(RMul(lx1, cos), RMul(ly1, sin))
        ly2 == RAdd(RMul(lx1, sin), RMul(ly1, cos))
    IN  [x |-> RDiv(lx2, RMul(layer.width, layer.scale)),
         y |-> RDiv(ly2, RMul(layer.height, layer.scale))]

\* The bounds check of the hit test.
HitTest(layer, wx, wy) ==
    LET local == LocalPoint(layer, wx, wy)
    IN  RLe(RAbs(local.x), Frac(1, 2)) /\ RLe(RAbs(local.y), Frac(1, 2))

\* The loop over sortedReverse: the id of the first layer hit, or null.
RECURSIVE FirstHit(_, _, _)
FirstHit(sorted, wx, wy) ==
    IF sorted = << >> THEN NULL
    ELSE IF HitTest(Head(sorted), wx, wy) THEN Head(sorted).id
         ELSE FirstHit(Tail(sorted), wx, wy)

\* hitLayerId of handleMouseDown for the pointer event at client position e.
HitLayerId(e) ==
    LET w == WorldPoint(CanvasPoint(e))
    IN  FirstHit(SortDesc(layers), w.x, w.y)

\* layers.find(l => l.id === id): the first layer with that id.
Find(id) ==
    LET I == { i \in DOMAIN layers : layers[i].id = id }
    IN  layers[CHOOSE i \in I : \A j \in I : i <= j]

\* The three setters that start a pan.
startPan(e) ==
    /\ isPanning' = TRUE
    /\ dragStart' = [x |-> R(e.x), y |-> R(e.y)]
    /\ initialView' = [x |-> view.x, y |-> view.y]

\* The setters that start a layer drag.
startDrag(e, hitLayerId) ==
    /\ activeLayerId' = hitLayerId
    /\ isDragging' = TRUE
    /\ dragStart' = [x |-> R(e.x), y |-> R(e.y)]
    /\ initialPos' = [x |-> Find(hitLayerId).x, y |-> Find(hitLayerId).y]
    /\ draggedLayerId' = hitLayerId

\* handleMouseDown's branch for a pan trigger: no hit test is made.
panTriggerDown(e) ==
    /\ startPan(e)
    /\ UNCHANGED << activeLayerId, isDragging, initialPos, draggedLayerId >>

\* handleMouseDown's branch for a hit: select and drag.
hitDown(e, hitLayerId) ==
    /\ startDrag(e, hitLayerId)
    /\ UNCHANGED << isPanning, initialView >>

\* Mutant of missDown: the selection is kept.
missDownKeepsSelection(e) ==
    /\ startPan(e)
    /\ UNCHANGED << activeLayerId, isDragging, initialPos, draggedLayerId >>

\* handleMouseDown's branch for no hit: deselect and pan.
missDown(e) ==
    /\ activeLayerId' = NULL
    /\ startPan(e)
    /\ UNCHANGED << isDragging, initialPos, draggedLayerId >>

handleMouseDown(button, e) ==
    /\ downs < MaxDowns
    /\ downs' = downs + 1
    /\ IF isPanTrigger(button)
       THEN panTriggerDown(e)
       ELSE IF HitLayerId(e) # NULL
            THEN hitDown(e, HitLayerId(e))
            ELSE missDown(e)
    /\ UNCHANGED << layers, isSpacePressed, canvasSize, view, gpu, loads, steps, lastOp, outside >>

\* Mutant of PanTo: the pointer's movement is divided by the zoom.
PanToDividedByZoom(e) ==
    [x |-> RAdd(initialView.x, RDiv(RSub(R(e.x), dragStart.x), view.scale)),
     y |-> RAdd(initialView.y, RDiv(RSub(R(e.y), dragStart.y), view.scale))]

\* The pan handleMouseMove sets while panning.
PanTo(e) ==
    [x |-> RAdd(initialView.x, RSub(R(e.x), dragStart.x)),
     y |-> RAdd(initialView.y, RSub(R(e.y), dragStart.y))]

\* The layer position handleMouseMove sets while dragging.
DragTo(e) ==
    [x |-> RAdd(initialPos.x, RDiv(RSub(R(e.x), dragStart.x), view.scale)),
     y |-> RAdd(initialPos.y, RDiv(RSub(R(e.y), dragStart.y), view.scale))]

handleMouseMove(e) ==
    IF isPanning
    THEN /\ view' = [view EXCEPT !.x = PanTo(e).x, !.y = PanTo(e).y]
         /\ UNCHANGED << layers, activeLayerId, interaction, isSpacePressed,
                         canvasSize, gpu, loads, history, outside >>
    ELSE IF isDragging /\ activeLayerId # NULL
    THEN /\ layers' = updateLayer(activeLayerId, DragTo(e))
         /\ UNCHANGED << activeLayerId, interaction, isSpacePressed, canvasSize,
                         view, gpu, loads, history, outside >>
    ELSE UNCHANGED vars

\* Mutant of handleMouseUp: a pan is not ended.
handleMouseUpKeepsPanning ==
    /\ isDragging' = FALSE
    /\ UNCHANGED << layers, activeLayerId, isPanning, dragStart, initialPos, initialView,
                    isSpacePressed, canvasSize, view, gpu, loads, history, outside >>

\* handleMouseUp, the canvas's onMouseUp and onMouseLeave.
handleMouseUp ==
    /\ isDragging' = FALSE
    /\ isPanning' = FALSE
    /\ UNCHANGED << layers, activeLayerId, dragStart, initialPos, initialView,
                    isSpacePressed, canvasSize, view, gpu, loads, history, outside >>

\* ------------------------------------------------------------ specification
\* The sequences of image sizes a file selection can hold.
FileSelections ==
    UNION { [1 .. k -> ImageSizes] : k \in 1 .. MaxFiles }

Next ==
    \/ \E repeat \in BOOLEAN, onInput \in BOOLEAN : handleKeyDown(repeat, onInput)
    \/ handleKeyUp
    \/ \E fs \in FileSelections : files + Len(fs) <= MaxFiles /\ handleFileUpload(fs)
    \/ \E i \in DOMAIN pending : imgOnload(i)
    \/ \E r \in SliderRotations : sliderChange([rotation |-> r])
    \/ \E l \in Range(layers) : deleteLayer(l.id)
    \/ \E l \in Range(layers) : layerClick(l.id)
    \/ zoomInButton
    \/ zoomOutButton
    \/ \E button \in Buttons, e \in ClientPoints : handleMouseDown(button, e)
    \/ \E e \in ClientPoints : handleMouseMove(e)
    \/ handleMouseUp

Spec == Init /\ [][Next]_vars

\* The layer list and the frames: files are selected and load, layers are
\* deleted and reordered in the list, and frames are drawn.
ListFileSelections ==
    UNION { [1 .. k -> ImageSizes] : k \in 1 .. MaxListFiles }

ListNext ==
    \/ \E fs \in ListFileSelections :
          files + Len(fs) <= MaxListFiles /\ handleFileUpload(fs)
    \/ \E i \in DOMAIN pending : imgOnload(i)
    \/ \E l \in Range(layers) : deleteLayer(l.id)
    \/ \E draggedId \in 0 .. nextId, index \in DOMAIN layers : onDrop(draggedId, index)
    \/ render

ListSpec == Init /\ [][ListNext]_vars

\* updateLayer as a function of its arguments: files are selected and load,
\* layers are selected and deleted, and updateLayer is called with any id,
\* that of no layer included, and any of LayerUpdates.
UpdateNext ==
    \/ \E fs \in FileSelections : files + Len(fs) <= MaxFiles /\ handleFileUpload(fs)
    \/ \E i \in DOMAIN pending : imgOnload(i)
    \/ \E l \in Range(layers) : deleteLayer(l.id)
    \/ \E l \in Range(layers) : layerClick(l.id)
    \/ \E id \in 1 .. nextId + 1, updates \in LayerUpdates : updateLayerCall(id, updates)

UpdateSpec == Init /\ [][UpdateNext]_vars

\* Fitting: files are selected and load, the active layer's sliders are
\* moved, the container is resized, and the toolbar's buttons change the
\* view.
FitNext ==
    \/ \E fs \in FileSelections : files + Len(fs) <= MaxFiles /\ handleFileUpload(fs)
    \/ \E i \in DOMAIN pending : imgOnload(i)
    \/ \E r \in SliderRotations : sliderChange([rotation |-> r])
    \/ \E sc \in SliderScales : sliderChange([scale |-> sc])
    \/ \E size \in CanvasSizes : resize(size)
    \/ zoomInButton
    \/ zoomOutButton
    \/ fitToScreen
    \/ resetView

FitSpec == Init /\ [][FitNext]_vars

\* The wheel: files are selected and load, the active layer's scale slider
\* is moved to its least value, and the view is changed by the wheel and by
\* the toolbar's buttons.
WheelNext ==
    \/ \E fs \in FileSelections : files + Len(fs) <= MaxFiles /\ handleFileUpload(fs)
    \/ \E i \in DOMAIN pending : imgOnload(i)
    \/ sliderChange([scale |-> LeastSliderScale])
    \/ \E e \in WheelEvents : handleWheel(e)
    \/ zoomInButton
    \/ zoomOutButton
    \/ fitToScreen
    \/ resetView

WheelSpec == Init /\ [][WheelNext]_vars


\* ------------------------------------------------------------ frames
\* requestAnimationFrame(cb) on the callback list q, taking the callback
\* ahead of those already registered.
requestAnimationFrameFirst(q, cb) == << cb >> \o q

\* requestAnimationFrame(cb) on the callback list q: the browser runs the
\* callbacks of a frame in the order of their registration.
requestAnimationFrame(q, cb) == Append(q, cb)

\* A commit has changed layers or view since render was last created, so
\* that useCallback(..., [layers, view]) returns a new render and the effect
\* that depends on it is due.
EffectDue == << renderRef.layers, renderRef.view >> # << layers, view >>

\* useEffect(() => { requestAnimationFrame(render); }, [render]): the new
\* render closes over the committed layers and view.
renderEffect ==
    /\ EffectDue
    /\ renderRef' = [layers |-> layers, view |-> view, n |-> renderRef.n + 1]
    /\ rafQueue' = requestAnimationFrame(rafQueue, renderRef')
    /\ UNCHANGED << layers, activeLayerId, interaction, isSpacePressed, canvasSize, view,
                    gpu, loads, history, drawnFrom, lifecycle, corrector, shader >>

\* The browser runs the first registered callback: render, on the layers it
\* closed over; without a context it returns before any call.
rafCallback ==
    /\ rafQueue # << >>
    /\ rafQueue' = Tail(rafQueue)
    /\ frame' = IF ~glRef \/ ~programRef THEN frame
                ELSE << [call |-> "clearColor", args |-> << 0, 0, 0, 0 >>],
                        [call |-> "clear", args |-> << >>] >>
                     \o ForEachDraw(SortAsc(Head(rafQueue).layers))
    /\ drawnFrom' = IF ~glRef \/ ~programRef THEN drawnFrom ELSE Head(rafQueue).n
    /\ UNCHANGED << layers, activeLayerId, interaction, isSpacePressed, canvasSize, view,
                    glRef, textures, loads, history, renderRef, lifecycle, corrector, shader >>

\* An event handler runs once the effects of the last commit have run.
HandlerMayRun == ~EffectDue /\ renderRef.n < MaxCommits

\* Frames: files are selected and load, layers are deleted, the toolbar's
\* buttons change the view, and the frames that the commits schedule are
\* drawn.
FrameNext ==
    \/ \E fs \in FileSelections :
          HandlerMayRun /\ files + Len(fs) <= MaxFiles /\ handleFileUpload(fs)
    \/ \E i \in DOMAIN pending : HandlerMayRun /\ imgOnload(i)
    \/ \E l \in Range(layers) : HandlerMayRun /\ deleteLayer(l.id)
    \/ HandlerMayRun /\ zoomInButton
    \/ HandlerMayRun /\ zoomOutButton
    \/ HandlerMayRun /\ resetView
    \/ renderEffect
    \/ rafCallback

FrameSpec == Init /\ [][FrameNext]_vars

\* Frames and resizes: the handlers of FrameNext, and the container is
\* resized.
ResizeNext ==
    \/ \E fs \in FileSelections :
          HandlerMayRun /\ files + Len(fs) <= MaxFiles /\ handleFileUpload(fs)
    \/ \E i \in DOMAIN pending : HandlerMayRun /\ imgOnload(i)
    \/ \E l \in Range(layers) : HandlerMayRun /\ deleteLayer(l.id)
    \/ HandlerMayRun /\ zoomInButton
    \/ \E size \in CanvasSizes : HandlerMayRun /\ resize(size)
    \/ renderEffect
    \/ rafCallback

ResizeSpec == Init /\ [][ResizeNext]_vars

\* React runs the effects of every commit, and the browser runs every
\* callback registered with requestAnimationFrame.
FrameFairSpec == FrameSpec /\ WF_vars(renderEffect) /\ WF_vars(rafCallback)

\* ------------------------------------------------------------ LensCorrector
\* How a run of initWebGL ends: without a context, with a shader that does
\* not compile, with a program that does not link, or with the program.
InitOutcomes == { "no context", "no shader", "no link", "ok" }

\* The values the strength slider is moved to.
Strengths == { R(-1), R(1) }

\* The values the zoom slider is moved to.
Zooms == { R(2) }

\* render of LensCorrector with the committed image im, strength st and zoom
\* zm, that draws anything at all.
lcRenderAlways(im, st, zm) ==
    << [call |-> "drawArrays", image |-> im, strength |-> st, zoom |-> zm] >>

\* render of LensCorrector with the committed image im, strength st and zoom
\* zm: nothing without the context, the program or an image, else one
\* drawArrays with the uniforms set.
lcRender(im, st, zm) ==
    IF ~lcGlRef \/ ~lcProgramRef \/ im = NULL THEN lcFrame
    ELSE << [call |-> "drawArrays", image |-> im, strength |-> st, zoom |-> zm] >>

\* loadTexture(img): nothing without the context, else a new texture of img.
loadTexture(im) == IF ~lcGlRef THEN textureRef ELSE im

\* The textures created once loadTexture has returned: one more with the
\* context, gl.createTexture() being called on every run.
lcCreateTexture == IF ~lcGlRef THEN lcTextures ELSE lcTextures + 1

\* useEffect(() => { initWebGL(); }, [initWebGL]): initWebGL is memoised on
\* the shader sources, which never change, so that the effect runs as the
\* component is mounted and never again.
initWebGL(outcome) ==
    /\ initRuns = 0
    /\ initRuns' = initRuns + 1
    /\ lcGlRef' = (outcome # "no context")
    /\ lcProgramRef' = (outcome = "ok")
    /\ UNCHANGED << layers, activeLayerId, interaction, isSpacePressed, canvasSize, view,
                    gpu, loads, history, scheduler, lifecycle, image, strength, zoom,
                    fileName, textureRef, lcTextures, lcFrame, lcMounted, decodes, requests, completed, shader >>

\* handleFileChange: with a file chosen, the download is renamed after it
\* and a FileReader starts to read it.
handleFileChange(hasFile) ==
    /\ fileName' = IF hasFile THEN requests + 1 ELSE fileName
    /\ decodes' = IF hasFile THEN decodes \cup { [req |-> requests + 1, stage |-> "read"] }
                  ELSE decodes
    /\ requests' = IF hasFile THEN requests + 1 ELSE requests
    /\ UNCHANGED << layers, activeLayerId, interaction, isSpacePressed, canvasSize, view,
                    gpu, loads, history, scheduler, lifecycle, image, strength, zoom,
                    lcGlRef, lcProgramRef, textureRef, lcTextures, lcFrame, initRuns, lcMounted,
                    completed, shader >>

\* reader.onload: the file is read, and an Image starts to decode it.
readerOnload(d) ==
    /\ d.stage = "read"
    /\ decodes' = (decodes \ { d }) \cup { [d EXCEPT !.stage = "decode"] }
    /\ UNCHANGED << layers, activeLayerId, interaction, isSpacePressed, canvasSize, view,
                    gpu, loads, history, scheduler, lifecycle, image, strength, zoom,
                    fileName, lcGlRef, lcProgramRef, textureRef, lcTextures, lcFrame, initRuns,
                    lcMounted, requests, completed, shader >>

\* img.onload of handleFileChange: setImage(img), setStrength(0), setZoom(1),
\* then the effects of the commit: loadTexture(image) and render().  React
\* drops the updates of a component that is no longer mounted.
lcImgOnload(d) ==
    /\ d.stage = "decode"
    /\ decodes' = decodes \ { d }
    /\ completed' = Append(completed, d.req)
    /\ IF lcMounted
       THEN /\ image' = d.req
            /\ strength' = R(0)
            /\ zoom' = R(1)
            /\ textureRef' = loadTexture(d.req)
            /\ lcTextures' = lcCreateTexture
            /\ lcFrame' = lcRender(d.req, R(0), R(1))
       ELSE UNCHANGED << image, strength, zoom, textureRef, lcTextures, lcFrame >>
    /\ UNCHANGED << layers, activeLayerId, interaction, isSpacePressed, canvasSize, view,
                    gpu, loads, history, scheduler, lifecycle, fileName, lcGlRef,
                    lcProgramRef, initRuns, lcMounted, requests, shader >>

\* Mutant of lcDecodeFails: a failed load clears the active image.
lcDecodeFailsClearsImage(d) ==
    /\ decodes' = decodes \ { d }
    /\ failures' = failures + 1
    /\ image' = NULL
    /\ UNCHANGED << layers, activeLayerId, interaction, isSpacePressed, canvasSize, view,
                    gpu, loads, history, scheduler, programRef, mounted, strength,
                    zoom, fileName, lcGlRef, lcProgramRef, textureRef, lcTextures, lcFrame, initRuns,
                    lcMounted, requests, completed, shader >>

\* The FileReader or the Image of the load d fails: handleFileChange
\* registers no onerror handler, so that no code of the component runs.
lcDecodeFails(d) ==
    /\ decodes' = decodes \ { d }
    /\ failures' = failures + 1
    /\ UNCHANGED << layers, activeLayerId, interaction, isSpacePressed, canvasSize, view,
                    gpu, loads, history, scheduler, programRef, mounted, image, strength,
                    zoom, fileName, lcGlRef, lcProgramRef, textureRef, lcTextures, lcFrame, initRuns,
                    lcMounted, requests, completed, shader >>

\* The commit of a new strength st and zoom zm, and its effects: render is
\* a new closure, so that the effect on [image, loadTexture, render] runs
\* loadTexture(image) and render() again, and that on [strength, zoom,
\* render] runs render().  A setter called with the value the state holds
\* commits nothing and runs no effect.
lcSetControls(st, zm) ==
    /\ image # NULL
    /\ LET committed == << st, zm >> # << strength, zoom >>
       IN  /\ (committed /\ lcGlRef) => lcTextures < MaxTextures
           /\ textureRef' = IF committed THEN loadTexture(image) ELSE textureRef
           /\ lcTextures' = IF committed THEN lcCreateTexture ELSE lcTextures
           /\ lcFrame' = IF committed THEN lcRender(image, st, zm) ELSE lcFrame
    /\ strength' = st
    /\ zoom' = zm
    /\ UNCHANGED << layers, activeLayerId, interaction, isSpacePressed, canvasSize, view,
                    gpu, loads, history, scheduler, lifecycle, image, fileName, lcGlRef,
                    lcProgramRef, initRuns, lcMounted, decodes, requests,
                    completed, shader >>

\* The strength slider, enabled with an image: setStrength(value).
setStrength(value) == lcSetControls(value, zoom)

\* The zoom slider, enabled with an image: setZoom(value).
setZoom(value) == lcSetControls(strength, value)

\* The Reset Values button, enabled with an image.
resetValues == lcSetControls(R(0), R(1))

\* The page that holds LensCorrector is left: the component has no effect
\* with a cleanup, so that nothing but React's unmounting happens.
lcUnmount ==
    /\ lcMounted
    /\ lcMounted' = FALSE
    /\ UNCHANGED << layers, activeLayerId, interaction, isSpacePressed, canvasSize, view,
                    gpu, loads, history, scheduler, lifecycle, image, strength, zoom,
                    fileName, lcGlRef, lcProgramRef, textureRef, lcTextures, lcFrame, initRuns,
                    decodes, requests, completed, shader >>

\* The component's handlers run while it is mounted, after the effects of
\* its mounting.
lcHandlerMayRun == lcMounted /\ initRuns > 0

\* The single-image corrector: the context is initialised, files are chosen,
\* read and decoded, or fail to be, the controls are moved, and the page is
\* left.
CorrectorNext ==
    \/ \E outcome \in InitOutcomes : initWebGL(outcome)
    \/ \E hasFile \in BOOLEAN :
          lcHandlerMayRun /\ requests < MaxRequests /\ handleFileChange(hasFile)
    \/ \E d \in decodes : readerOnload(d)
    \/ \E d \in decodes : lcImgOnload(d)
    \/ \E d \in decodes : lcDecodeFails(d)
    \/ \E st \in Strengths : lcHandlerMayRun /\ setStrength(st)
    \/ \E zm \in Zooms : lcHandlerMayRun /\ setZoom(zm)
    \/ lcHandlerMayRun /\ resetValues
    \/ lcUnmount

CorrectorSpec == Init /\ [][CorrectorNext]_vars

\* ------------------------------------------------------------ teardown
\* The page that holds the editor is left: the cleanups of its effects
\* remove the key and wheel listeners and disconnect the ResizeObserver; the
\* refs keep what they hold, and the loads in flight are not cancelled.
unmount ==
    /\ mounted
    /\ mounted' = FALSE
    /\ UNCHANGED << layers, activeLayerId, interaction, isSpacePressed, canvasSize, view,
                    gpu, loads, history, scheduler, programRef, failures, corrector, shader >>

\* img.onload of the i-th load in flight, once the editor is unmounted:
\* createTexture(img) runs on the context glRef.current still holds and the
\* layer is built, and React drops setLayers and setActiveLayerId.
imgOnloadUnmounted(i) ==
    /\ i \in DOMAIN pending
    /\ LET tex == createTexture
       IN  textures' = IF tex = NULL THEN textures ELSE textures \cup {tex}
    /\ nextId' = nextId + 1
    /\ pending' = RemoveAt(pending, i)
    /\ UNCHANGED << layers, activeLayerId, interaction, isSpacePressed, canvasSize, view,
                    glRef, frame, files, history, outside >>

\* img.onload of the i-th load in flight, whenever its image is decoded.
imgOnloadAnytime(i) ==
    IF mounted THEN imgOnload(i) ELSE imgOnloadUnmounted(i)

\* Teardown: in either component files are chosen and load, and the page is
\* left with loads in flight.
TeardownNext ==
    \/ \E fs \in FileSelections :
          mounted /\ files + Len(fs) <= MaxFiles /\ handleFileUpload(fs)
    \/ \E i \in DOMAIN pending : imgOnloadAnytime(i)
    \/ unmount
    \/ \E outcome \in InitOutcomes : initWebGL(outcome)
    \/ \E hasFile \in BOOLEAN :
          lcHandlerMayRun /\ requests < MaxRequests /\ handleFileChange(hasFile)
    \/ \E d \in decodes : readerOnload(d)
    \/ \E d \in decodes : lcImgOnload(d)
    \/ lcUnmount

TeardownSpec == Init /\ [][TeardownNext]_vars

\* ------------------------------------------------------------ failed loads
\* The FileReader or the Image of the i-th load in flight fails:
\* handleFileUpload registers no onerror handler, so that no code of the
\* component runs.
imgOnerror(i) ==
    /\ i \in DOMAIN pending
    /\ pending' = RemoveAt(pending, i)
    /\ failures' = failures + 1
    /\ UNCHANGED << layers, activeLayerId, interaction, isSpacePressed, canvasSize, view,
                    gpu, nextId, files, history, scheduler, programRef, mounted, corrector, shader >>

\* Loads that fail: in either component files are chosen and their loads
\* complete or fail, the editor's view is zoomed and the corrector's
\* controls are moved.
LoadNext ==
    \/ \E fs \in FileSelections : files + Len(fs) <= MaxFiles /\ handleFileUpload(fs)
    \/ \E i \in DOMAIN pending : imgOnload(i)
    \/ \E i \in DOMAIN pending : imgOnerror(i)
    \/ zoomInButton
    \/ \E outcome \in InitOutcomes : initWebGL(outcome)
    \/ \E hasFile \in BOOLEAN :
          lcHandlerMayRun /\ requests < MaxRequests /\ handleFileChange(hasFile)
    \/ \E d \in decodes : readerOnload(d)
    \/ \E d \in decodes : lcImgOnload(d)
    \/ \E d \in decodes : lcDecodeFails(d)
    \/ \E st \in Strengths : lcHandlerMayRun /\ setStrength(st)

LoadSpec == Init /\ [][LoadNext]_vars

\* ------------------------------------------------------------ initialisation
\* The page as it is first laid out, after the effect that initialises the
\* editor's WebGL state: it returns before glRef.current is set without a
\* context, and before programRef.current is set with a shader that does
\* not compile or a program that does not link.
InitAnyOutcome ==
    /\ Mounted
    /\ programRef \in BOOLEAN
    /\ programRef => glRef
    /\ NoFragment

\* Initialisation and what follows it: with any outcome of either
\* component's initialisation, files are chosen and load, the corrector's
\* strength is changed, and the frames are drawn.
StartNext ==
    \/ \E fs \in FileSelections :
          HandlerMayRun /\ files + Len(fs) <= MaxFiles /\ handleFileUpload(fs)
    \/ \E i \in DOMAIN pending : HandlerMayRun /\ imgOnload(i)
    \/ renderEffect
    \/ rafCallback
    \/ \E outcome \in InitOutcomes : initWebGL(outcome)
    \/ \E hasFile \in BOOLEAN :
          lcHandlerMayRun /\ requests < MaxRequests /\ handleFileChange(hasFile)
    \/ \E d \in decodes : readerOnload(d)
    \/ \E d \in decodes : lcImgOnload(d)
    \/ \E st \in Strengths : lcHandlerMayRun /\ setStrength(st)

StartSpec == InitAnyOutcome /\ [][StartNext]_vars

\* ------------------------------------------------------------ fragment shaders
\* The v_texCoord of the fragments shaded: the corners, the centre, and the
\* points between them.
TexCoords ==
    { [x |-> Frac(i, 4), y |-> Frac(j, 4)] : i \in 0 .. 4, j \in 0 .. 4 }

\* The distortion coefficients of the draws.
Coefficients == { R(-2), R(-1), R(0), R(1), R(2) }

\* The u_zoom of the corrector's draws.
ShaderZooms == { R(1), R(2) }

\* The u_opacity of the editor's draws.
Opacities == { Frac(4, 5) }

\* Mutant of DistCoord: the coefficient is taken with the opposite sign.
DistCoordOpposite(texCoord, k) ==
    LET cx == RSub(texCoord.x, Frac(1, 2))
        cy == RSub(texCoord.y, Frac(1, 2))
        r2 == RAdd(RMul(cx, cx), RMul(cy, cy))
        f  == RSub(R(1), RMul(k, r2))
    IN  [x |-> RMul(cx, f), y |-> RMul(cy, f)]

\* Both shaders: coord = v_texCoord - 0.5; r2 = dot(coord, coord);
\* dist_coord = coord * (1.0 + k * r2).
DistCoord(texCoord, k) ==
    LET cx == RSub(texCoord.x, Frac(1, 2))
        cy == RSub(texCoord.y, Frac(1, 2))
        r2 == RAdd(RMul(cx, cx), RMul(cy, cy))
        f  == RAdd(R(1), RMul(k, r2))
    IN  [x |-> RMul(cx, f), y |-> RMul(cy, f)]

\* uv.x < 0.0 || uv.x > 1.0 || uv.y < 0.0 || uv.y > 1.0
OutOfTexture(uv) ==
    \/ ~RLe(R(0), uv.x)
    \/ ~RLe(uv.x, R(1))
    \/ ~RLe(R(0), uv.y)
    \/ ~RLe(uv.y, R(1))

\* Mutant of FS_SOURCE: the texture is sampled wherever uv falls, for the
\* texture's wrap mode to clamp.
FS_SOURCE_Sampling(texCoord, u_distortion, u_opacity) ==
    LET dist_coord == DistCoord(texCoord, u_distortion)
        uv == [x |-> RAdd(dist_coord.x, Frac(1, 2)), y |-> RAdd(dist_coord.y, Frac(1, 2))]
    IN  [kind |-> "texture2D", uv |-> uv, alpha |-> u_opacity]

\* FS_SOURCE of the editor: the fragment is discarded where uv falls out of
\* the texture, else it is the texel at uv with its alpha times u_opacity.
FS_SOURCE(texCoord, u_distortion, u_opacity) ==
    LET dist_coord == DistCoord(texCoord, u_distortion)
        uv == [x |-> RAdd(dist_coord.x, Frac(1, 2)), y |-> RAdd(dist_coord.y, Frac(1, 2))]
    IN  IF OutOfTexture(uv) THEN [kind |-> "discard", uv |-> uv, alpha |-> R(0)]
        ELSE [kind |-> "texture2D", uv |-> uv, alpha |-> u_opacity]

\* fsSource of LensCorrector: final_coord = dist_coord / u_zoom; the
\* fragment is vec4(0.0) where uv falls out of the texture, else the texel
\* at uv.
fsSource(texCoord, u_strength, u_zoom) ==
    LET dist_coord == DistCoord(texCoord, u_strength)
        final_coord == [x |-> RDiv(dist_coord.x, u_zoom), y |-> RDiv(dist_coord.y, u_zoom)]
        uv == [x |-> RAdd(final_coord.x, Frac(1, 2)), y |-> RAdd(final_coord.y, Frac(1, 2))]
    IN  IF OutOfTexture(uv) THEN [kind |-> "vec4(0.0)", uv |-> uv, alpha |-> R(0)]
        ELSE [kind |-> "texture2D", uv |-> uv, alpha |-> R(1)]

\* A draw of either program, of which one fragment is followed.
ShaderInit ==
    /\ Mounted
    /\ programRef = glRef
    /\ fragment \in [texCoord : TexCoords, k : Coefficients, zoom : ShaderZooms,
                     opacity : Opacities]
    /\ lcFragColor = [kind |-> "none"]
    /\ fragColor = [kind |-> "none"]

\* The GPU runs the corrector's fragment shader on the fragment.
lcShade ==
    /\ lcFragColor.kind = "none"
    /\ lcFragColor' = fsSource(fragment.texCoord, fragment.k, fragment.zoom)
    /\ UNCHANGED << layers, activeLayerId, interaction, isSpacePressed, canvasSize, view,
                    gpu, loads, history, scheduler, lifecycle, corrector, fragment,
                    fragColor >>

\* The GPU runs the editor's fragment shader on the fragment.
shade ==
    /\ fragColor.kind = "none"
    /\ fragColor' = FS_SOURCE(fragment.texCoord, fragment.k, fragment.opacity)
    /\ UNCHANGED << layers, activeLayerId, interaction, isSpacePressed, canvasSize, view,
                    gpu, loads, history, scheduler, lifecycle, corrector, fragment,
                    lcFragColor >>

ShaderNext ==
    \/ lcShade
    \/ shade

ShaderSpec == ShaderInit /\ [][ShaderNext]_vars

\* ------------------------------------------------------------ deletion
\* Mutant of deleteLayerCall: the selection is cleared whatever the id.
deleteLayerCallClearsSelection(id) ==
    /\ layers' = FilterOutId(layers, id)
    /\ activeLayerId' = NULL
    /\ lastOp' = [op |-> "delete", id |-> id]
    /\ UNCHANGED << interaction, isSpacePressed, canvasSize, view, gpu, loads, downs,
                    draggedLayerId, steps, outside >>

\* deleteLayer(id) as a function of its argument, the call recorded.
deleteLayerCall(id) ==
    /\ layers' = FilterOutId(layers, id)
    /\ activeLayerId' = IF activeLayerId = id THEN NULL ELSE activeLayerId
    /\ lastOp' = [op |-> "delete", id |-> id]
    /\ UNCHANGED << interaction, isSpacePressed, canvasSize, view, gpu, loads, downs,
                    draggedLayerId, steps, outside >>

\* Deletion: files are selected and load, layers are selected, the view is
\* zoomed, and deleteLayer is called with any id, that of no layer included.
DeleteNext ==
    \/ \E fs \in FileSelections : files + Len(fs) <= MaxFiles /\ handleFileUpload(fs)
    \/ \E i \in DOMAIN pending : imgOnload(i)
    \/ \E l \in Range(layers) : layerClick(l.id)
    \/ zoomInButton
    \/ zoomOutButton
    \/ \E id \in 1 .. nextId + 1 : deleteLayerCall(id)

DeleteSpec == Init /\ [][DeleteNext]_vars

\* ------------------------------------------------------------ view scale
\* A container narrower than twice the padding of fitToScreen.
NarrowCanvasSizes == { [w |-> R(50), h |-> R(500)] }

\* The view's scale: files are selected and load, the container is resized
\* to a narrow one, and the view is changed by the wheel and by the
\* toolbar's buttons.
ScaleNext ==
    \/ \E fs \in FileSelections : files + Len(fs) <= MaxFiles /\ handleFileUpload(fs)
    \/ \E i \in DOMAIN pending : imgOnload(i)
    \/ \E size \in NarrowCanvasSizes : resize(size)
    \/ \E e \in WheelEvents : handleWheel(e)
    \/ zoomInButton
    \/ zoomOutButton
    \/ fitToScreen
    \/ resetView

ScaleSpec == Init /\ [][ScaleNext]_vars

\* Placement: files are selected and load, the active layer's rotation and
\* scale sliders are moved, the container is resized, and the view is
\* panned by the wheel and zoomed by the toolbar's buttons.
PlacementNext ==
    \/ \E fs \in FileSelections : files + Len(fs) <= MaxFiles /\ handleFileUpload(fs)
    \/ \E i \in DOMAIN pending : imgOnload(i)
    \/ \E r \in SliderRotations : sliderChange([rotation |-> r])
    \/ \E sc \in SliderScales : sliderChange([scale |-> sc])
    \/ \E size \in CanvasSizes : resize(size)
    \/ \E e \in { w \in WheelEvents : ~w.ctrlKey /\ w.deltaX > 0 } : handleWheel(e)
    \/ zoomInButton

PlacementSpec == Init /\ [][PlacementNext]_vars

\* Selection: files are selected and load, layers are deleted, reordered and
\* clicked in the layer list, and the pointer is pressed, moved and
\* released on the canvas.
SelectionNext ==
    \/ \E fs \in FileSelections : files + Len(fs) <= MaxFiles /\ handleFileUpload(fs)
    \/ \E i \in DOMAIN pending : imgOnload(i)
    \/ \E l \in Range(layers) : deleteLayer(l.id)
    \/ \E draggedId \in 0 .. nextId, index \in DOMAIN layers : onDrop(draggedId, index)
    \/ \E l \in Range(layers) : layerClick(l.id)
    \/ \E button \in Buttons, e \in ClientPoints : handleMouseDown(button, e)
    \/ \E e \in ClientPoints : handleMouseMove(e)
    \/ handleMouseUp

SelectionSpec == Init /\ [][SelectionNext]_vars

\* The wheel events of the view and layer operations: a pinch and a
\* two-finger scroll at the centre of the canvas.
CentreWheelEvents ==
    { w \in WheelEvents : w.clientX = 720 /\ w.deltaY \in {-69, 10} }

\* The updates of the view and layer operations: those of a position.
PositionUpdates == { u \in LayerUpdates : "x" \in DOMAIN u }

\* View and layer operations: files are selected and load, the view is
\* changed by the wheel, by panning and by the toolbar's buttons, and the
\* layers are changed by updateLayer, by dragging, by reordering and by
\* deletion, each handler run on the state of the latest commit, up to
\* MaxCommits commits.
EffectsNext ==
    \/ \E fs \in FileSelections :
          HandlerMayRun /\ files + Len(fs) <= MaxFiles /\ handleFileUpload(fs)
    \/ \E i \in DOMAIN pending : HandlerMayRun /\ imgOnload(i)
    \/ \E e \in CentreWheelEvents : HandlerMayRun /\ handleWheel(e)
    \/ \E button \in Buttons, e \in ClientPoints : HandlerMayRun /\ handleMouseDown(button, e)
    \/ \E e \in ClientPoints : HandlerMayRun /\ handleMouseMove(e)
    \/ HandlerMayRun /\ handleMouseUp
    \/ HandlerMayRun /\ zoomInButton
    \/ HandlerMayRun /\ zoomOutButton
    \/ HandlerMayRun /\ resetView
    \/ HandlerMayRun /\ fitToScreen
    \/ \E id \in 1 .. nextId, updates \in PositionUpdates :
          HandlerMayRun /\ updateLayerCall(id, updates)
    \/ \E draggedId \in 1 .. nextId, index \in DOMAIN layers :
          HandlerMayRun /\ onDrop(draggedId, index)
    \/ \E l \in Range(layers) : HandlerMayRun /\ deleteLayer(l.id)
    \/ renderEffect
    \/ rafCallback

EffectsSpec == Init /\ [][EffectsNext]_vars

\* ------------------------------------------------------------ claims
\* Points of the unit quad: the centre, the corners, and points inside.
UnitQuadPoints ==
    { [x |-> R(0), y |-> R(0)],
      [x |-> Frac(2, 5), y |-> R(0)], [x |-> R(0), y |-> Frac(-2, 5)],
      [x |-> Frac(1, 2), y |-> Frac(1, 2)], [x |-> Frac(-1, 2), y |-> Frac(1, 2)],
      [x |-> Frac(1, 2), y |-> Frac(-1, 2)], [x |-> Frac(-1, 2), y |-> Frac(-1, 2)] }

\* The layers the hit test of a pointer-down at client position e reports hit.
HitSet(e) ==
    LET w == WorldPoint(CanvasPoint(e))
    IN  { l \in Range(layers) : HitTest(l, w.x, w.y) }

\* The client position e as the handlers store it.
ClientPos(e) == [x |-> R(e.x), y |-> R(e.y)]

\* C1: hit-testing inverts placement: for every layer and every point p of
\* the unit quad, the canvas point where render puts p (model transform,
\* then view transform) is reported a hit on that layer by the hit test of
\* handleMouseDown.
C1_HitTestInvertsPlacement ==
    \A i \in DOMAIN layers : \A p \in UnitQuadPoints :
        LET w == WorldPoint(ScreenPoint(layers[i], p))
        IN  HitTest(layers[i], w.x, w.y)

\* C2: a pointer-down without a pan trigger that hits some layer selects a
\* layer of greatest zIndex among the layers hit and puts the machine in
\* DraggingLayer: isDragging true and isPanning false.
C2_TopmostHitStartsDrag ==
    [][ \A b \in Buttons, e \in ClientPoints :
          ( /\ handleMouseDown(b, e)
            /\ ~(isSpacePressed \/ b = 1)
            /\ HitSet(e) # {} )
          => /\ \E l \in HitSet(e) :
                   /\ activeLayerId' = l.id
                   /\ \A k \in HitSet(e) : k.zIndex <= l.zIndex
             /\ isDragging'
             /\ ~isPanning' ]_vars

C4_PanTriggerAlwaysPans ==
    [][ \A b \in Buttons, e \in ClientPoints :
          ( /\ handleMouseDown(b, e)
            /\ (isSpacePressed \/ b = 1) )
          => /\ isPanning'
             /\ initialView' = [x |-> view.x, y |-> view.y]
             /\ dragStart' = ClientPos(e)
             /\ isDragging' = isDragging
             /\ activeLayerId' = activeLayerId
             /\ initialPos' = initialPos
             /\ draggedLayerId' = draggedLayerId ]_vars

\* A state in which a pan was started with Space held and the main button
\* at a point that the hit test reports as on a layer, and no drag began.
C4_Witness ==
    /\ downs = 1
    /\ isPanning /\ ~isDragging /\ isSpacePressed
    /\ draggedLayerId = NULL
    /\ view.x = R(0) /\ view.scale = R(1)
    /\ \E e \in ClientPoints : dragStart = ClientPos(e) /\ HitSet(e) # {}


\* C5: every pointer-move in DraggingLayer puts the dragged layer (the layer
\* hit by the pointer-down that started the drag) at
\* initialPos + (pointer - dragStart) / view.scale.
C5_DragMovesDraggedLayer ==
    [][ \A e \in ClientPoints :
          ( /\ handleMouseMove(e)
            /\ isDragging /\ ~isPanning )
          => \A i \in DOMAIN layers :
                layers[i].id = draggedLayerId
                => /\ i \in DOMAIN layers'
                   /\ layers'[i].x =
                        RAdd(initialPos.x, RDiv(RSub(R(e.x), dragStart.x), view.scale))
                   /\ layers'[i].y =
                        RAdd(initialPos.y, RDiv(RSub(R(e.y), dragStart.y), view.scale)) ]_vars

\* C6: every pointer-move in PanningView sets the pan to
\* initialView + (pointer - dragStart), in screen units, and keeps the zoom.
C6_PanFollowsPointer ==
    [][ \A e \in ClientPoints :
          ( handleMouseMove(e) /\ isPanning )
          => /\ view'.x = RAdd(initialView.x, RSub(R(e.x), dragStart.x))
             /\ view'.y = RAdd(initialView.y, RSub(R(e.y), dragStart.y))
             /\ view'.scale = view.scale ]_vars

\* A pan in progress at a zoom other than 100% that has moved the view.
C6_Witness ==
    /\ isPanning
    /\ view.scale # R(1)
    /\ view.x # initialView.x
    /\ \E e \in ClientPoints : view.x = RAdd(initialView.x, RSub(R(e.x), dragStart.x))

\* C7: pointer-up and pointer-leave always end in Idle (isDragging and
\* isPanning both false), and a pointer-move in Idle changes neither the
\* layers nor the view.
C7_PointerUpReturnsToIdle ==
    [][ /\ handleMouseUp => (~isDragging' /\ ~isPanning')
        /\ \A e \in ClientPoints :
              ( handleMouseMove(e) /\ ~isDragging /\ ~isPanning )
              => (layers' = layers /\ view' = view) ]_vars

\* Idle again after one gesture that dragged a layer and one that panned
\* the view.
C7_Witness ==
    /\ downs = 2
    /\ ~isDragging /\ ~isPanning
    /\ draggedLayerId # NULL
    /\ view.x # R(0)

\* C8: a layer added by a completing image load gets a zIndex strictly
\* greater than that of every layer in the collection at that moment.
C8_NewLayerAboveAll ==
    [][ \A i \in DOMAIN pending :
          imgOnload(i)
          => \A l \in Range(layers) : layers'[Len(layers')].zIndex > l.zIndex ]_vars

\* C9: deleteLayer(id) removes the layer with that id and nothing else,
\* keeps the other layers as they are and in their order, and clears the
\* selection exactly when the removed layer was selected.
C9_DeleteRemovesExactlyOne ==
    [][ \A i \in DOMAIN layers :
          deleteLayer(layers[i].id)
          => /\ Len(layers') = Len(layers) - 1
             /\ \A j \in DOMAIN layers' :
                   layers'[j] = IF j < i THEN layers[j] ELSE layers[j + 1]
             /\ activeLayerId' =
                   IF activeLayerId = layers[i].id THEN NULL ELSE activeLayerId ]_vars

\* The selected one of two layers was deleted: with no pointer-down so far,
\* only deleteLayer can have cleared the selection.
C9_Witness ==
    /\ downs = 0
    /\ nextId = 2 /\ Len(layers) = 1
    /\ activeLayerId = NULL

\* C10: the textures allocated and not released are exactly the textures
\* the layers of the collection refer to.
C10_TexturesMatchLayers ==
    textures = { l.texture : l \in Range(layers) } \ {NULL}

\* The load closure a file selection of image img would create in the state
\* with the given layers and canvas size.
LoadOf(img, ls, size) ==
    [ image |-> img, layersLength |-> Len(ls), canvasSize |-> size ]

\* C11: adding a layer and then immediately removing it (the first layer of
\* the session, still selected, no load in flight) restores an observably
\* empty state: the collection is empty, the selection is none, no texture
\* is left allocated, and a file selected next gets the defaults (zIndex
\* included) of a file selected in a fresh session.
C11_AddThenRemoveRestoresEmpty ==
    [][ \A l \in Range(layers) :
          ( /\ deleteLayer(l.id)
            /\ Len(layers) = 1 /\ nextId = 1 /\ pending = << >>
            /\ activeLayerId = l.id )
          => /\ layers' = << >>
             /\ activeLayerId' = NULL
             /\ textures' = {}
             /\ \A img \in ImageSizes :
                   NewLayer(LoadOf(img, layers', canvasSize'), NULL, NULL)
                     = NewLayer(LoadOf(img, << >>, InitialCanvasSize), NULL, NULL) ]_vars

\* The ids of the layers of s, in order.
Ids(s) == [ i \in DOMAIN s |-> s[i].id ]

\* The sequence of ids s without id.
RECURSIVE WithoutId(_, _)
WithoutId(s, id) ==
    IF s = << >> THEN << >>
    ELSE IF Head(s) = id THEN WithoutId(Tail(s), id)
         ELSE << Head(s) >> \o WithoutId(Tail(s), id)

\* C12: dropping layer D onto layer T of the layer list (sorted by zIndex
\* descending) moves D to the list position T had, keeps the relative order
\* of the other layers, and makes the zIndex values down the list
\* n, n-1, ..., 1; the set of layers and every field other than zIndex stay
\* as they were, and dropping a layer onto itself changes nothing.
C12_ReorderMovesDraggedToTarget ==
    [][ \A d \in 1 .. nextId, t \in DOMAIN layers :
          ( onDrop(d, t) /\ FindIndex(layers, d) # 0 )
          => LET list == SortDesc(layers)
                 after == SortDesc(layers')
                 n == Len(layers)
             IN  IF list[t].id = d
                 THEN layers' = layers
                 ELSE /\ Len(after) = n
                      /\ after[t].id = d
                      /\ WithoutId(Ids(after), d) = WithoutId(Ids(list), d)
                      /\ \A i \in 1 .. n : after[i].zIndex = n - (i - 1)
                      /\ \A i \in 1 .. n :
                            \E j \in 1 .. n :
                               [layers'[j] EXCEPT !.zIndex = layers[i].zIndex] = layers[i]
    ]_vars

\* Three layers added one by one (list 3, 2, 1 from the top), then the
\* bottom entry, layer 1, dropped onto the top entry: the list is 1, 3, 2.
C12_Witness ==
    /\ Len(layers) = 3
    /\ Ids(layers) = << 1, 3, 2 >>
    /\ layers[1].zIndex = 3 /\ layers[2].zIndex = 2 /\ layers[3].zIndex = 1

\* C13: updateLayer(id, updates) merges only the supplied fields into the
\* layer with that id: the fields of that layer that updates does not name,
\* every other layer, the selection and the view stay as they were, and
\* with no layer of that id nothing changes.
C13_UpdateMergesOnlySupplied ==
    [][ \A id \in 1 .. nextId + 1, u \in LayerUpdates :
          updateLayerCall(id, u)
          => /\ Len(layers') = Len(layers)
             /\ \A i \in DOMAIN layers :
                   IF layers[i].id = id
                   THEN \A f \in DOMAIN layers[i] :
                           layers'[i][f] = IF f \in DOMAIN u THEN u[f] ELSE layers[i][f]
                   ELSE layers'[i] = layers[i]
             /\ activeLayerId' = activeLayerId
             /\ view' = view
             /\ (FindIndex(layers, id) = 0 => layers' = layers) ]_vars

\* Two layers of which only the first has had its scale updated.
C13_Witness ==
    /\ Len(layers) = 2
    /\ layers[1].scale = R(-1) /\ layers[1].opacity = Frac(4, 5)
    /\ layers[2].scale = Frac(1, 2) /\ layers[2].opacity = Frac(4, 5)

\* C14: out-of-range parameters are clamped, never stored: every layer has
\* scale > 0 and opacity in [0, 1], whatever updateLayer was called with.
C14_ScaleAndOpacityInRange ==
    \A l \in Range(layers) :
        /\ RLe(R(0), l.scale) /\ l.scale # R(0)
        /\ RLe(R(0), l.opacity) /\ RLe(l.opacity, R(1))

\* C15: the view zoom lies in [0.1, 10] in every reachable state, whatever
\* wheel zooms, zoom button presses, fits and resets have been applied.
C15_ZoomInRange ==
    RLe(Frac(1, 10), view.scale) /\ RLe(view.scale, R(10))

\* The world point under the canvas point m in the view v: the inverse of
\* the view transform canvas = world * scale + pan.
WorldUnder(v, m) ==
    [x |-> RDiv(RSub(m.x, v.x), v.scale), y |-> RDiv(RSub(m.y, v.y), v.scale)]

\* C16: zoom toward cursor: the world point under the pointer before a
\* wheel zoom is the world point under the pointer after it, for every
\* view, pointer position and zoom delta, those whose result is clamped to
\* the zoom range included.  (Arithmetic is exact here.)
C16_ZoomKeepsWorldPointUnderCursor ==
    [][ \A e \in WheelEvents :
          ( handleWheel(e) /\ e.ctrlKey )
          => WorldUnder(view', WheelPoint(e)) = WorldUnder(view, WheelPoint(e)) ]_vars

\* After a wheel zoom in from a view away from the origin whose result was
\* clamped to 10.
C16_Witness ==
    /\ lastOp.op = "wheel"
    /\ lastOp.e.ctrlKey /\ lastOp.e.deltaY = -300
    /\ lastOp.view.x # R(0) /\ lastOp.view.scale # R(1)
    /\ ~RLe(RMul(lastOp.view.scale, R(20)), R(10))
    /\ view.scale = R(10)
    /\ view = ZoomAt(lastOp.view, WheelPoint(lastOp.e), lastOp.e.deltaY)

RenderedCorners ==
    UNION { LET m == ModelMatrix(l) IN { VertexShader(m, c) : c \in corners } :
              l \in Range(layers) }

\* The axis-aligned bounding box of the points P.
BoxOf(P) ==
    LET xs == { p.x : p \in P }
        ys == { p.y : p \in P }
    IN  [minX |-> MinOf(xs), maxX |-> MaxOf(xs), minY |-> MinOf(ys), maxY |-> MaxOf(ys)]

\* min((W - 2*50) / boundsW, (H - 2*50) / boundsH) for the box b in a
\* viewport of the given size.
LeastFit(b, size) ==
    RMin(RDiv(RSub(size.w, R(100)), RSub(b.maxX, b.minX)),
         RDiv(RSub(size.h, R(100)), RSub(b.maxY, b.minY)))

\* The view v shows the centre of the box b at the centre of a viewport of
\* the given size.
CentresBox(v, b, size) ==
    /\ RAdd(RMul(RDiv(RAdd(b.minX, b.maxX), R(2)), v.scale), v.x) = RDiv(size.w, R(2))
    /\ RAdd(RMul(RDiv(RAdd(b.minY, b.maxY), R(2)), v.scale), v.y) = RDiv(size.h, R(2))

\* The collection is one 200x100 layer at scale 1, rotation 0, and the
\* canvas is 1000x500.
FitScenario ==
    /\ Len(layers) = 1
    /\ layers[1].width = R(200) /\ layers[1].height = R(100)
    /\ layers[1].scale = R(1) /\ layers[1].rotation = 0
    /\ canvasSize = [w |-> R(1000), h |-> R(500)]

\* C18 as stated: fitToScreen with at least one layer sets the zoom to
\* min((W - 100) / boundsW, (H - 100) / boundsH) for the bounding box of
\* all layers' transformed corners, and the pan so that the centre of the
\* bounding box lands on the centre of the canvas; in the scenario the
\* zoom is 4.
C18_FitScalesToBounds ==
    [][ ( lastOp'.op = "fit" /\ Len(layers) >= 1 /\ fitToScreen )
        => LET b == BoxOf(RenderedCorners)
           IN  /\ view'.scale = LeastFit(b, canvasSize)
               /\ CentresBox(view', b, canvasSize)
               /\ (FitScenario => view'.scale = R(4)) ]_vars

\* C18 as amended: as stated, except that when the minimum is 0 (the
\* canvas is exactly as wide or as high as the two paddings) the zoom is
\* set to 1.
C18_FitScalesToBoundsUnlessZero ==
    [][ ( lastOp'.op = "fit" /\ Len(layers) >= 1 /\ fitToScreen )
        => LET b == BoxOf(RenderedCorners)
               least == LeastFit(b, canvasSize)
           IN  /\ view'.scale = IF least = R(0) THEN R(1) ELSE least
               /\ CentresBox(view', b, canvasSize)
               /\ (FitScenario => view'.scale = R(4)) ]_vars

\* The scenario, fitted: the zoom is 4.
C18_Witness ==
    /\ lastOp.op = "fit"
    /\ FitScenario
    /\ view.scale = R(4)
    /\ CentresBox(view, BoxOf(RenderedCorners), canvasSize)

\* C19: fitToScreen with no layers sets the view to pan (0, 0), zoom 1.
C19_FitEmptyResetsView ==
    [][ ( Len(layers) = 0 /\ fitToScreen )
        => view' = [x |-> R(0), y |-> R(0), scale |-> R(1)] ]_vars

\* Fitted with no layer ever added while a file was loading.
C19_Witness ==
    /\ lastOp.op = "fit"
    /\ Len(layers) = 0 /\ nextId = 0 /\ pending # << >>
    /\ view = [x |-> R(0), y |-> R(0), scale |-> R(1)]

\* The layer of the collection with texture t.
LayerOfTexture(t) == CHOOSE l \in Range(layers) : l.texture = t

\* The frame f is the two clearing calls followed by n draws, each a
\* bindTexture and a drawArrays.
IsFrameOfDraws(f, n) ==
    /\ Len(f) = 2 + 2 * n
    /\ f[1] = [call |-> "clearColor", args |-> << 0, 0, 0, 0 >>]
    /\ f[2].call = "clear"
    /\ \A k \in 1 .. n :
          f[2 * k + 1].call = "bindTexture" /\ f[2 * k + 2].call = "drawArrays"

\* The texture of the k-th draw of the frame f.
DrawnTexture(f, k) == f[2 * k + 1].args[1]

\* C20: in every frame render draws, the frame buffer is first cleared to
\* (0, 0, 0, 0), then every layer with a texture is drawn exactly once, in
\* non-decreasing zIndex order, layers of equal zIndex in the order they
\* were added (the order of their ids).
C20_FrameClearsThenDrawsInZOrder ==
    [][ ( render /\ glRef )
        => LET textured == { l \in Range(layers) : l.texture # NULL }
               n == Cardinality(textured)
           IN  /\ IsFrameOfDraws(frame', n)
               /\ { DrawnTexture(frame', k) : k \in 1 .. n } = { l.texture : l \in textured }
               /\ \A j, k \in 1 .. n :
                     j < k =>
                       LET a == LayerOfTexture(DrawnTexture(frame', j))
                           b == LayerOfTexture(DrawnTexture(frame', k))
                       IN  \/ a.zIndex < b.zIndex
                           \/ a.zIndex = b.zIndex /\ a.id < b.id ]_vars

\* A frame of three layers of which the first of the collection is the
\* topmost and the other two have the same zIndex: the two are drawn first,
\* in the order of the collection, and the first last.
C20_Witness ==
    /\ Len(layers) = 3 /\ Len(frame) = 8
    /\ layers[1].zIndex = 2 /\ layers[2].zIndex = 1 /\ layers[3].zIndex = 1
    /\ DrawnTexture(frame, 1) = layers[2].texture
    /\ DrawnTexture(frame, 2) = layers[3].texture
    /\ DrawnTexture(frame, 3) = layers[1].texture


\* The frame drawn last was drawn from the committed layers and view.
FrameIsFresh ==
    /\ ~EffectDue
    /\ drawnFrom = renderRef.n

C22_LaterRequestWins ==
    (lcMounted /\ decodes = {} /\ requests > 0 /\ Len(completed) = requests)
        => image = requests


\* C23: the completion of an image load after its component was unmounted
\* creates no layer and changes nothing of the session: neither the editor's
\* layers, selection, view and textures, nor the corrector's image, controls,
\* file name, texture and frame.
C23_LateDecodeIsDiscarded ==
    [][ /\ (~mounted /\ pending' # pending)
            => UNCHANGED << layers, activeLayerId, view, canvasSize, textures, frame >>
        /\ (~lcMounted /\ completed' # completed)
            => UNCHANGED << image, strength, zoom, fileName, textureRef, lcFrame >>
      ]_vars


\* C24: a load that fails changes nothing, neither as it starts nor as it
\* fails: the editor's layers, textures, selection and view and the
\* corrector's image, strength and zoom are what they were.
C24_FailedLoadChangesNothing ==
    [][ (failures' # failures \/ files' # files \/ requests' # requests)
          => UNCHANGED << layers, textures, activeLayerId, view, image, strength, zoom >>
      ]_vars

\* In each component one load has completed and another has failed.
C24_Witness ==
    /\ failures = 2
    /\ Len(layers) = 1
    /\ pending = << >>
    /\ files = 2
    /\ completed = << 1 >>
    /\ image = 1
    /\ strength = R(1)
    /\ decodes = {}
    /\ requests = 2


\* The editor's initialisation has failed.
EditorInitFailed == ~glRef \/ ~programRef

\* The corrector's initialisation has run and failed.
CorrectorInitFailed == initRuns > 0 /\ (~lcGlRef \/ ~lcProgramRef)

\* C25: after a failed initialisation no render ever makes a WebGL call, in
\* the editor or in the corrector, and the initialisation is not run again:
\* the context and the program stay what the failed run left.
C25_InitFailureIsFatal ==
    /\ [](EditorInitFailed => frame = << >>)
    /\ [](CorrectorInitFailed => lcFrame = << >>)
    /\ [][EditorInitFailed => UNCHANGED << glRef, programRef >>]_vars
    /\ [][CorrectorInitFailed => UNCHANGED << initRuns, lcGlRef, lcProgramRef >>]_vars

\* Both initialisations failed at the shaders; since then images have loaded
\* in both components, the editor's frames have run and the corrector's
\* strength has been changed.
C25_Witness ==
    /\ glRef
    /\ ~programRef
    /\ Len(layers) = 2
    /\ rafQueue = << >>
    /\ ~EffectDue
    /\ initRuns = 1
    /\ lcGlRef
    /\ ~lcProgramRef
    /\ image = 2
    /\ textureRef = 2
    /\ strength = R(1)


\* The centre of a viewport of the given size, in canvas pixels.
ViewportCentre(size) == [x |-> RDiv(size.w, R(2)), y |-> RDiv(size.h, R(2))]

\* C26: as an image load completes, the centre of the layer it adds is the
\* world point that the view of that moment maps to the centre of the
\* viewport of that moment.
C26_NewLayerCentredInView ==
    [][ nextId' # nextId
          => LET newLayer == layers'[Len(layers')]
             IN  [x |-> newLayer.x, y |-> newLayer.y]
                   = WorldUnder(view, ViewportCentre(canvasSize)) ]_vars

\* The new layer's scaled size is smaller than the viewport, on both axes.
FitsViewport(l, size) ==
    /\ ~RLe(size.w, RMul(l.width, l.scale))
    /\ ~RLe(size.h, RMul(l.height, l.scale))

\* C27: as an image load completes, the scaled width and height of the layer
\* it adds are smaller than the width and height of the viewport.
C27_NewLayerSmallerThanViewport ==
    [][ nextId' # nextId => FitsViewport(layers'[Len(layers')], canvasSize) ]_vars


\* The corners of the destination image, and its centre.
Corners == { [x |-> R(i), y |-> R(j)] : i \in {0, 1}, j \in {0, 1} }
Centre == [x |-> Frac(1, 2), y |-> Frac(1, 2)]

\* Both shaders have run on the fragment, the corrector's without zoom.
ShadedWithoutZoom ==
    /\ fragment.zoom = R(1)
    /\ lcFragColor.kind # "none"
    /\ fragColor.kind # "none"

\* The point halfway between the centre and the point p.
Halfway(p) ==
    [x |-> RDiv(RAdd(p.x, Frac(1, 2)), R(2)), y |-> RDiv(RAdd(p.y, Frac(1, 2)), R(2))]

InUnitSquare(uv) ==
    /\ RLe(R(0), uv.x) /\ RLe(uv.x, R(1))
    /\ RLe(R(0), uv.y) /\ RLe(uv.y, R(1))

\* C29: for the same coefficient and a corrector zoom of 1 both shaders
\* compute the same source coordinate, 0.5 + c * (1 + k * r2) unclamped, and
\* each samples the texture exactly when that coordinate lies within [0, 1]
\* on both axes: elsewhere the corrector writes vec4(0.0) and the editor
\* discards.
C29_SameEdgePolicy ==
    ShadedWithoutZoom
        => /\ lcFragColor.uv = fragColor.uv
           /\ (lcFragColor.kind = "texture2D") <=> InUnitSquare(lcFragColor.uv)
           /\ (fragColor.kind = "texture2D") <=> InUnitSquare(fragColor.uv)
           /\ lcFragColor.kind \in { "texture2D", "vec4(0.0)" }
           /\ fragColor.kind \in { "texture2D", "discard" }

\* Both shaders have dropped a fragment whose source coordinate is out of
\* the texture.
C29_Witness ==
    /\ ShadedWithoutZoom
    /\ fragment.k = R(2)
    /\ fragColor.kind = "discard"
    /\ lcFragColor.kind = "vec4(0.0)"
    /\ fragColor.uv = [x |-> Frac(-1, 2), y |-> Frac(3, 2)]


\* C30: a call of deleteLayer with the id of no layer leaves the layer
\* collection, the active selection and the view as they were.
C30_DeleteOfNoLayerIsNoOp ==
    [][ (lastOp' # lastOp /\ lastOp'.op = "delete" /\ lastOp'.id \notin Range(Ids(layers)))
          => UNCHANGED << layers, activeLayerId, view >> ]_vars

\* deleteLayer has been called with an id that no layer ever had, with two
\* layers, one of them selected, and a zoomed view.
C30_Witness ==
    /\ lastOp.op = "delete"
    /\ lastOp.id = nextId + 1
    /\ Len(layers) = 2
    /\ activeLayerId = 1
    /\ view.scale = Frac(11, 10)


\* C31: in every reachable state the view's scale is a finite number and is
\* strictly positive.
C31_ViewScaleIsPositive ==
    /\ isFinite(view.scale)
    /\ ~RLe(view.scale, R(0))


\* C32: a pointer-move in DraggingLayer changes no layer but the dragged
\* one, the layer hit by the pointer-down that started the drag.
C32_DragMovesOnlyDraggedLayer ==
    [][ \A e \in ClientPoints :
          ( /\ isDragging /\ ~isPanning
            /\ handleMouseMove(e) )
          => /\ Len(layers') = Len(layers)
             /\ \A i \in DOMAIN layers :
                   layers[i].id # draggedLayerId => layers'[i] = layers[i] ]_vars

\* Whether the quad render draws for the layer covers the world point
\* (wx, wy): the point's coordinates in the unit quad, by undoing the
\* translation, the rotation the vertex shader applies to the model matrix
\* (x' = x cos + y sin, y' = -x sin + y cos) and the scale.
DrawnOver(layer, wx, wy) ==
    LET dx == RSub(wx, layer.x)
        dy == RSub(wy, layer.y)
        c == MathCos(layer.rotation)
        s == MathSin(layer.rotation)
        u == RDiv(RSub(RMul(c, dx), RMul(s, dy)), RMul(layer.width, layer.scale))
        v == RDiv(RAdd(RMul(s, dx), RMul(c, dy)), RMul(layer.height, layer.scale))
    IN  RLe(RAbs(u), Frac(1, 2)) /\ RLe(RAbs(v), Frac(1, 2))

\* The layers render draws over the client position e, in drawing order.
DrawnAt(e) ==
    LET w == WorldPoint(CanvasPoint(e))
    IN  SelectSeq(SortAsc(layers),
                  LAMBDA l : l.texture # NULL /\ DrawnOver(l, w.x, w.y))

\* C33: hit-testing agrees with drawing on which layer is topmost: a
\* pointer-down without a pan trigger at a point that render covers with
\* one or more layers selects the layer render draws last among them,
\* layers of equal zIndex included.
C33_HitIsLastDrawn ==
    [][ \A b \in Buttons, e \in ClientPoints :
          ( /\ handleMouseDown(b, e)
            /\ ~(isSpacePressed \/ b = 1)
            /\ DrawnAt(e) # << >> )
          => activeLayerId' = DrawnAt(e)[Len(DrawnAt(e))].id ]_vars

\* The steps of the placement of a unit-quad point, one at a time.
ScaledBy(p, sx, sy) == [x |-> RMul(p.x, sx), y |-> RMul(p.y, sy)]

RotatedBy(p, r) == VertexShader(m3_rotation(r), p)

MovedBy(p, tx, ty) == [x |-> RAdd(p.x, tx), y |-> RAdd(p.y, ty)]

Projected(p) ==
    [x |-> RSub(RDiv(RMul(R(2), p.x), canvasSize.w), R(1)),
     y |-> RSub(R(1), RDiv(RMul(R(2), p.y), canvasSize.h))]

\* The unit-quad point p of the layer, scaled, then rotated, then moved to
\* the layer's position, then scaled by the view's zoom, then moved by the
\* view's pan, then projected to clip space.
PlacedStepwise(layer, p) ==
    LET scaled == ScaledBy(p, RMul(layer.width, layer.scale), RMul(layer.height, layer.scale))
        placed == MovedBy(RotatedBy(scaled, layer.rotation), layer.x, layer.y)
        viewed == MovedBy(ScaledBy(placed, view.scale, view.scale), view.x, view.y)
    IN  Projected(viewed)

\* C34: m3_multiply(a, b) applies b's transform first and then a's, so the
\* matrix render hands to the GPU for a layer maps every unit-quad point
\* by the layer's scale, then its rotation, then the translation to its
\* position, then the view's zoom, then the view's pan, then the screen
\* projection.
C34_FinalMatrixComposesInOrder ==
    \A i \in DOMAIN layers :
        LET final == finalMatrix(layers[i])
            model == ModelMatrix(layers[i])
            viewModel == m3_multiply(ViewMatrix, model)
        IN  \A p \in UnitQuadPoints :
               /\ VertexShader(final, p) = PlacedStepwise(layers[i], p)
               /\ VertexShader(viewModel, p)
                    = VertexShader(ViewMatrix, VertexShader(model, p))

\* A rotated layer of changed scale under a view that is zoomed and panned.
C34_Witness ==
    \E i \in DOMAIN layers :
        /\ layers[i].rotation # 0
        /\ layers[i].scale # Frac(1, 2)
        /\ view.scale # R(1)
        /\ view.x # R(0)

\* C35: the interaction states are mutually exclusive: in every reachable
\* state, after any sequence of pointer-downs (any button, Space held or
\* not), pointer-moves, pointer-ups and pointer-leaves, isDragging and
\* isPanning are not both true.
C35_DragAndPanExclusive == ~(isDragging /\ isPanning)

\* C36: the active selection is always valid: in every reachable state
\* activeLayerId is none or the id of a layer of the collection, whatever
\* the interleaving of load completions, deletions, reorders, layer list
\* clicks and pointer events.
C36_SelectionIsValid ==
    activeLayerId = NULL \/ \E i \in DOMAIN layers : layers[i].id = activeLayerId

\* Two layers were added, the selected one was deleted, and no pointer-down
\* has cleared the selection.
C36_Witness ==
    /\ activeLayerId = NULL
    /\ Len(layers) = 1
    /\ nextId = 2
    /\ downs = 0

\* The view operations: the wheel, a pointer-move while panning, the zoom
\* buttons, Reset View and Fit to All.
ViewOperation ==
    \/ \E e \in WheelEvents : handleWheel(e)
    \/ isPanning /\ \E e \in ClientPoints : handleMouseMove(e)
    \/ zoomInButton
    \/ zoomOutButton
    \/ resetView
    \/ fitToScreen

\* The layer operations: updateLayer, a pointer-move while dragging a
\* layer, a drop in the layer list, and deleteLayer.
LayerOperation ==
    \/ \E id \in 1 .. nextId, updates \in LayerUpdates : updateLayerCall(id, updates)
    \/ ~isPanning /\ isDragging /\ \E e \in ClientPoints : handleMouseMove(e)
    \/ \E draggedId \in 1 .. nextId, index \in DOMAIN layers : onDrop(draggedId, index)
    \/ \E l \in Range(layers) : deleteLayer(l.id)

\* C37: view operations and layer operations have disjoint effects: a step
\* that changes the layer collection or the active selection is no view
\* operation, and a step that changes the view's pan or zoom is no layer
\* operation.
C37_ViewAndLayerEffectsDisjoint ==
    [][ /\ (layers' # layers \/ activeLayerId' # activeLayerId) => ~ViewOperation
        /\ view' # view => ~LayerOperation ]_vars

\* The view was zoomed and panned with a layer selected, after a layer was
\* moved.
C37_Witness ==
    /\ view.scale # R(1)
    /\ view.x # R(0)
    /\ activeLayerId # NULL
    /\ \E i \in DOMAIN layers : layers[i].x # R(400)

\* C38: after a resize has blanked the drawing buffer, a frame is drawn
\* again without a further change of layers or view: once every effect has
\* run and every registered callback has been called, the raster is not
\* blank while layers with a texture exist.
C38_ResizedFrameIsRedrawn ==
    ( /\ glRef /\ programRef
      /\ ~EffectDue
      /\ rafQueue = << >>
      /\ \E i \in DOMAIN layers : layers[i].texture # NULL )
    => frame # << >>

\* A move of the strength slider or of the zoom slider, or Reset Values.
ControlsMoved ==
    \/ \E st \in Strengths : setStrength(st)
    \/ \E zm \in Zooms : setZoom(zm)
    \/ resetValues

\* C39: in single-image mode a texture is allocated once per loaded image:
\* a change of the strength or of the zoom, or a reset, on a loaded image
\* creates no texture, and textureRef keeps holding the texture of the
\* current image.
C39_ControlsCreateNoTexture ==
    [][ ControlsMoved
        => /\ lcTextures' = lcTextures
           /\ textureRef' = textureRef ]_vars

\* C40: in single-image mode the export file name matches the displayed
\* image: in every reachable state with an active image, fileName is the
\* name of the file that image was decoded from, whatever the interleaving
\* of file selections, decode completions and decode failures.
C40_FileNameIsOfImage == image # NULL => fileName = image


====
